---- MODULE Spec2Model ----
(***************************************************************************)
(* Text-normalisation core of wiktextract (src/wiktextract/clean.py):      *)
(* the superscript/subscript/chemical converters, the LaTeX-to-Unicode     *)
(* renderer to_math and the markup stripper clean_value.                   *)
(*                                                                         *)
(* A Python str is modelled as a sequence of characters.  An ASCII         *)
(* character is the TLA+ string that holds it; any other character is the  *)
(* string "U+XXXX" that names its code point (Sigma is "U+03A3").              *)
(***************************************************************************)
EXTENDS Integers, Sequences, FiniteSets, TLC

VARIABLES
    fn,             \* name of the function of clean.py being called
    arg,            \* its text argument
    ret,            \* the value it returned
    raised,         \* TRUE when the call ended in a Python exception
    pc,             \* position of the call: "call", "returned", ...
    local_title,    \* clean_value: the local variable title
    local_prev,     \* clean_value: the local variable prev of the table loop
    passes,         \* clean_value: substitution passes of the table loop
    IMAGE_LINK_RE,  \* the module global IMAGE_LINK_RE (<<>> is None)
    config,         \* the namespace configuration of the wxr argument
    calls,          \* number of calls made in this process
    steps,          \* clean_value: steps of the call executed so far
    local_lines,    \* remove_italic_and_bold: the local variable lines
    local_line,     \* remove_italic_and_bold: position of the loop in lines
    local_parts,    \* remove_italic_and_bold: the local variable parts
    local_i,        \* remove_italic_and_bold: position of the loop in parts
    local_state,    \* remove_italic_and_bold: the local variable state
    new_text_parts, \* remove_italic_and_bold: the list new_text_parts
    local_text,     \* to_math: the variable text of the outermost recurse
    local_orig,     \* to_math: the variable orig of the brace loop
    local_magic_vec,\* to_math: the list magic_vec
    local_matches,  \* to_math: the matches of the re.sub in progress
    local_magics,   \* to_math: what repl returned for the matches so far
    local_pages,    \* extract_namespace: the pages still to be iterated
    tarf            \* extract_namespace: the members added to the archive

\* the variables of a call of remove_italic_and_bold taken step by step
emphasisVars ==
    <<local_lines, local_line, local_parts, local_i, local_state,
      new_text_parts>>

\* the variables of a call of to_math taken step by step
mathVars ==
    <<local_text, local_orig, local_magic_vec, local_matches, local_magics>>

\* the variables of a call of extract_namespace
tarVars == <<local_pages, tarf>>

vars ==
    <<fn, arg, ret, raised, pc, local_title, local_prev, passes,
      IMAGE_LINK_RE, config, calls, steps, local_lines, local_line,
      local_parts, local_i, local_state, new_text_parts, local_text,
      local_orig, local_magic_vec, local_matches, local_magics,
      local_pages, tarf>>

\* the variables of clean_value and of the process it runs in
cleanVars ==
    <<local_title, local_prev, passes, IMAGE_LINK_RE, config, calls, steps>>

(***************************************************************************)
(* Python str helpers                                                      *)
(***************************************************************************)
\* The last of the successive values an assignment sequence gives to a
\* variable, each value being computed from the ones before it.
Last(values) == values[Len(values)]

RECURSIVE JoinMap(_, _, _)
\* "".join(Part(j) for j in range(from, to + 1))
JoinMap(Part(_), from, to) ==
    IF from > to THEN <<>> ELSE Part(from) \o JoinMap(Part, from + 1, to)

\* "".join(parts)
Flatten(parts) == JoinMap(LAMBDA j : parts[j], 1, Len(parts))

\* The characters outside ASCII that the character tables and the
\* alphabets of the specifications contain, by Unicode class: the decimal
\* and superscript or subscript digits (str.isdigit()) and the letters
\* (str.isalpha()).
OtherDigits ==
    {"U+00B2", "U+00B3", "U+00B9", "U+2070", "U+2074", "U+2075", "U+2076",
     "U+2077", "U+2078", "U+2079", "U+2080", "U+2081", "U+2082", "U+2083",
     "U+2084", "U+2085", "U+2086", "U+2087", "U+2088", "U+2089", "U+1D7D9",
     "U+1D7DA"}

OtherLetters ==
    {"U+0259", "U+02B0", "U+02B2", "U+02B3", "U+02B7", "U+02B8",
     "U+02E1", "U+02E2", "U+02E3", "U+03A3", "U+03B2", "U+03B3",
     "U+03B4", "U+03B8", "U+03B9", "U+03C1", "U+03C6", "U+03C7",
     "U+1D2C", "U+1D2E", "U+1D30", "U+1D31", "U+1D33", "U+1D34",
     "U+1D35", "U+1D36", "U+1D37", "U+1D38", "U+1D39", "U+1D3A",
     "U+1D3C", "U+1D3E", "U+1D3F", "U+1D40", "U+1D41", "U+1D42",
     "U+1D43", "U+1D47", "U+1D48", "U+1D49", "U+1D4D", "U+1D4F",
     "U+1D50", "U+1D52", "U+1D56", "U+1D57", "U+1D58", "U+1D5B",
     "U+1D5D", "U+1D5E", "U+1D5F", "U+1D60", "U+1D61", "U+1D62",
     "U+1D63", "U+1D64", "U+1D65", "U+1D68", "U+1D69", "U+1D6A",
     "U+1D9C", "U+1DA0", "U+1DA5", "U+1DBB", "U+1DBF", "U+2071",
     "U+207F", "U+2090", "U+2091", "U+2092", "U+2093", "U+2094",
     "U+2095", "U+2096", "U+2097", "U+2098", "U+2099", "U+209A",
     "U+209B", "U+209C", "U+2C7C", "U+2C7D", "U+4E00", "U+1D4CD",
     "U+1D569"}

\* str.isdigit() of one character
IsDigit(c) ==
    c \in {"0", "1", "2", "3", "4", "5", "6", "7", "8", "9"} \cup OtherDigits

\* All strings over alphabet A of length at most n
StringsUpTo(A, n) == UNION {[1..k -> A] : k \in 0..n}

\* the texts of at most n lexemes
RECURSIVE WordsUpTo(_, _)
WordsUpTo(lexemes, n) ==
    IF n = 0 THEN {<<>>}
    ELSE LET shorter == WordsUpTo(lexemes, n - 1)
         IN shorter \cup {w \o l : w \in shorter, l \in lexemes}

(***************************************************************************)
(* Python re (imported at clean.py line 10): a backtracking matcher with   *)
(* the priorities of Python's engine.  A pattern is a sequence of nodes;   *)
(* a match attempt returns <<>> when it fails and <<end, caps>> when it    *)
(* succeeds, where end is the position after the match and caps[n] is the  *)
(* span <<from, to>> of capturing group n (<<0, 0>> while unset).          *)
(***************************************************************************)
\* number of capturing groups a pattern may have
MaxGroups == 8

Letters ==
    {"a", "b", "c", "d", "e", "f", "g", "h", "i", "j", "k", "l", "m",
     "n", "o", "p", "q", "r", "s", "t", "u", "v", "w", "x", "y", "z",
     "A", "B", "C", "D", "E", "F", "G", "H", "I", "J", "K", "L", "M",
     "N", "O", "P", "Q", "R", "S", "T", "U", "V", "W", "X", "Y", "Z"}

\* [0-9]
Digits == {"0", "1", "2", "3", "4", "5", "6", "7", "8", "9"}

\* \s
Space ==
    {" ", "\n", "\t", "\r", "U+00A0", "U+2000", "U+2001", "U+2002", "U+2003"}

\* \w of a str pattern: "_" and the alphanumeric characters
Word == Letters \cup Digits \cup {"_"} \cup OtherLetters \cup OtherDigits

\* x: one character of set S
Ch(S) == [k |-> "in", s |-> S]

\* [^...]: one character outside set S (with S = {}: "." under re.DOTALL)
NCh(S) == [k |-> "notin", s |-> S]

\* ".": any character but a newline
Dot == NCh({"\n"})

\* a literal string: cs[j] is the set of characters accepted at offset j
LitOf(cs) == <<[k |-> "lit", cs |-> cs]>>

Lit(str) == LitOf([j \in 1..Len(str) |-> {str[j]}])

\* r{lo,hi} (hi = -1: unbounded), greedy or lazy
Rep(r, lo, hi, lazy) ==
    [k |-> "rep", r |-> r, lo |-> lo, hi |-> hi, lazy |-> lazy]

Star(r) == Rep(r, 0, -1, FALSE)

Plus(r) == Rep(r, 1, -1, FALSE)

Opt(r) == Rep(r, 0, 1, FALSE)

StarLazy(r) == Rep(r, 0, -1, TRUE)

PlusLazy(r) == Rep(r, 1, -1, TRUE)

\* b1|b2|...: bs is the sequence of the alternatives
Alt(bs) == [k |-> "alt", bs |-> bs]

\* (r) as capturing group n
Grp(n, r) == [k |-> "grp", n |-> n, r |-> r]

\* (?!r)
NotAhead(r) == [k |-> "nla", r |-> r]

\* $
EndOfString == [k |-> "eos"]

\* ^ without re.MULTILINE
StartOfString == [k |-> "bos"]

\* \b
WordBoundary == [k |-> "wb"]

NoCaps == [n \in 1..MaxGroups |-> <<0, 0>>]

IsWordAt(s, i) == i >= 1 /\ i <= Len(s) /\ s[i] \in Word

\* The matcher works on states <<i, caps>>: the position reached in s and
\* the spans of the groups closed so far.  Outcomes lists the states in
\* which a pattern can end, in the order in which the backtracking matcher
\* of the re module finds them; the match re reports is the first one.
RECURSIVE Outcomes(_, _, _)
RECURSIVE NodeOutcomes(_, _, _)

RECURSIVE OneCharWide(_)
\* r consumes exactly one character in exactly one way: lookaheads followed
\* by a character class, or by a group around such a pattern
OneCharWide(r) ==
    /\ r # <<>>
    /\ \A j \in 1..(Len(r) - 1) : r[j].k = "nla"
    /\ \/ r[Len(r)].k \in {"in", "notin"}
       \/ r[Len(r)].k = "grp" /\ OneCharWide(r[Len(r)].r)

\* the outcomes of the node sequence re from each state of sts in turn
Outcomes(re, s, sts) ==
    IF re = <<>> \/ sts = <<>> THEN sts
    ELSE Outcomes(Tail(re), s,
                  JoinMap(LAMBDA j : NodeOutcomes(Head(re), s, sts[j]),
                          1, Len(sts)))

\* a group n closed: every outcome of its body records the span from i
CloseGroup(n, i, inner) ==
    [j \in 1..Len(inner) |->
        <<inner[j][1], [inner[j][2] EXCEPT ![n] = <<i, inner[j][1]>>]>>]

\* the last position a repeat h of a one-character body can consume from i
RunLimit(h, s, i) ==
    IF h.hi >= 0 /\ i + h.hi - 1 < Len(s) THEN i + h.hi - 1 ELSE Len(s)

\* the positions of i..limit at which the body of h does not match
RunStops(h, s, i, caps, limit) ==
    {j \in i..limit : Outcomes(h.r, s, <<<<j, caps>>>>) = <<>>}

\* the number of iterations the body makes from i: up to the first stop
RunLength(i, limit, stops) ==
    IF stops = {} THEN limit - i + 1
    ELSE (CHOOSE j \in stops : \A j2 \in stops : j <= j2) - i

\* every admissible number of iterations up to n, the longest run first
\* when greedy, the shortest first when lazy; the groups keep the spans
\* of the last iteration
RunOutcomes(h, s, st, n) ==
    LET After(c) == IF c = 0 THEN st
                    ELSE Outcomes(h.r, s, <<<<st[1] + c - 1, st[2]>>>>)[1]
    IN [j \in 1..(n - h.lo + 1) |->
          After(IF h.lazy THEN h.lo + j - 1 ELSE n - j + 1)]

\* the repeat h after one iteration
OneLess(h) ==
    [h EXCEPT !.lo = IF h.lo > 0 THEN h.lo - 1 ELSE 0,
              !.hi = IF h.hi > 0 THEN h.hi - 1 ELSE h.hi]

\* the outcomes of one more iteration from each of the states once
RepMore(h, s, once) ==
    JoinMap(LAMBDA j : NodeOutcomes(OneLess(h), s, once[j]), 1, Len(once))

\* stopping is tried last when greedy, first when lazy
RepOrder(h, stop, more) == IF h.lazy THEN stop \o more ELSE more \o stop

\* the outcomes of the single node h from state st
NodeOutcomes(h, s, st) ==
    LET i == st[1]
        caps == st[2]
    IN
    CASE h.k = "lit" ->
           IF i + Len(h.cs) - 1 <= Len(s)
              /\ \A j \in 1..Len(h.cs) : s[i + j - 1] \in h.cs[j]
           THEN <<<<i + Len(h.cs), caps>>>> ELSE <<>>
      [] h.k = "in" ->
           IF i <= Len(s) /\ s[i] \in h.s THEN <<<<i + 1, caps>>>> ELSE <<>>
      [] h.k = "notin" ->
           IF i <= Len(s) /\ s[i] \notin h.s
           THEN <<<<i + 1, caps>>>> ELSE <<>>
      [] h.k = "grp" -> CloseGroup(h.n, i, Outcomes(h.r, s, <<st>>))
      [] h.k = "alt" ->
           JoinMap(LAMBDA b : Outcomes(h.bs[b], s, <<st>>), 1, Len(h.bs))
      [] h.k = "rep" /\ OneCharWide(h.r) ->
           RunOutcomes(h, s, st,
                       RunLength(i, RunLimit(h, s, i),
                                 RunStops(h, s, i, caps, RunLimit(h, s, i))))
      [] h.k = "rep" /\ ~OneCharWide(h.r) ->
           \* an iteration of a repeat has to consume something
           RepOrder(h, IF h.lo > 0 THEN <<>> ELSE <<st>>,
                    RepMore(h, s,
                            IF h.hi = 0 THEN <<>>
                            ELSE SelectSeq(Outcomes(h.r, s, <<st>>),
                                           LAMBDA o : o[1] > i)))
      [] h.k = "nla" ->
           IF Outcomes(h.r, s, <<st>>) = <<>> THEN <<st>> ELSE <<>>
      [] h.k = "eos" ->
           IF i = Len(s) + 1 \/ (i = Len(s) /\ s[i] = "\n")
           THEN <<st>> ELSE <<>>
      [] h.k = "wb" ->
           IF IsWordAt(s, i - 1) # IsWordAt(s, i) THEN <<st>> ELSE <<>>
      [] h.k = "bos" -> IF i = 1 THEN <<st>> ELSE <<>>

\* the outcome the matcher reports: the first one, <<>> when there is none
FirstOutcome(outs) == IF outs = <<>> THEN <<>> ELSE outs[1]

\* the match of re at position i of s: <<>> when there is none, else
\* <<end, caps>>
MatchAt(re, s, i, caps) == FirstOutcome(Outcomes(re, s, <<<<i, caps>>>>))

\* a match object: the span from..to-1 of s and the group spans
MatchObj(s, from, r) == [s |-> s, from |-> from, to |-> r[1], caps |-> r[2]]

\* a match object for the outcome r of a match at from, <<>> (None) for none
MatchOrNone(s, from, r) == IF r = <<>> THEN <<>> ELSE MatchObj(s, from, r)

\* re.match(re, s): a match object or <<>> (None)
ReMatch(re, s) == MatchOrNone(s, 1, MatchAt(re, s, 1, NoCaps))

RECURSIVE FindFrom(_, _, _)
\* the match at p, which has the outcome r, and the matches after it: the
\* scan resumes at the end of the match, one further on after an empty one
FindRest(re, s, p, r) ==
    <<MatchObj(s, p, r)>>
        \o FindFrom(re, s, IF r[1] > p THEN r[1] ELSE p + 1)

\* the matches from the leftmost of the positions starts on
FindLeftmost(re, s, starts) ==
    IF starts = {} THEN <<>>
    ELSE LET p == CHOOSE q \in starts : \A q2 \in starts : q <= q2
         IN FindRest(re, s, p, MatchAt(re, s, p, NoCaps))

\* the successive non-overlapping matches of re in s from position pos on,
\* leftmost first (re.finditer, and the matches re.sub replaces)
FindFrom(re, s, pos) ==
    FindLeftmost(re, s, {p \in pos..(Len(s) + 1) :
                            MatchAt(re, s, p, NoCaps) # <<>>})

FindAll(re, s) == FindFrom(re, s, 1)

\* re.search(re, s): the first match or <<>> (None)
ReSearch(re, s) == FirstOutcome(FindAll(re, s))

\* m.group(0)
Group0(m) == SubSeq(m.s, m.from, m.to - 1)

\* m.group(n) is not None
HasGroup(m, n) == m.caps[n] # <<0, 0>>

\* m.group(n) of a group that took part in the match
Group(m, n) == SubSeq(m.s, m.caps[n][1], m.caps[n][2] - 1)

\* the text of s with every match of ms replaced by Repl(match)
Replace(s, ms, Repl(_)) ==
    JoinMap(LAMBDA k :
                SubSeq(s, IF k = 1 THEN 1 ELSE ms[k - 1].to, ms[k].from - 1)
                    \o Repl(ms[k]),
            1, Len(ms))
        \o SubSeq(s, IF ms = <<>> THEN 1 ELSE ms[Len(ms)].to, Len(s))

\* re.sub(re, Repl, s)
ReSub(re, Repl(_), s) == Replace(s, FindAll(re, s), Repl)

LowerCase ==
    <<"a", "b", "c", "d", "e", "f", "g", "h", "i", "j", "k", "l", "m",
      "n", "o", "p", "q", "r", "s", "t", "u", "v", "w", "x", "y", "z">>

UpperCase ==
    <<"A", "B", "C", "D", "E", "F", "G", "H", "I", "J", "K", "L", "M",
      "N", "O", "P", "Q", "R", "S", "T", "U", "V", "W", "X", "Y", "Z">>

\* the characters that equal c when case is ignored (re.IGNORECASE)
BothCases(c) ==
    IF c \in Letters
    THEN LET i == CHOOSE j \in 1..26 : LowerCase[j] = c \/ UpperCase[j] = c
         IN {LowerCase[i], UpperCase[i]}
    ELSE {c}

\* a literal string under re.IGNORECASE
LitCI(str) == LitOf([j \in 1..Len(str) |-> BothCases(str[j])])

\* sub in s
Contains(s, sub) ==
    \E i \in 1..(Len(s) - Len(sub) + 1) : SubSeq(s, i, i + Len(sub) - 1) = sub

\* s.split(sep)[0] for a one-character separator
FirstField(s, sep) ==
    IF \E i \in 1..Len(s) : s[i] = sep
    THEN SubSeq(s, 1, (CHOOSE i \in 1..Len(s) :
                          s[i] = sep /\ \A j \in 1..(i - 1) : s[j] # sep) - 1)
    ELSE s

RECURSIVE JoinWith(_, _)
\* sep.join(parts)
JoinWith(parts, sep) ==
    IF parts = <<>> THEN <<>>
    ELSE IF Len(parts) = 1 THEN parts[1]
    ELSE parts[1] \o sep \o JoinWith(Tail(parts), sep)

\* str.strip() / lstrip() / rstrip() with the characters of set S
RECURSIVE LStrip(_, _)
LStrip(s, S) ==
    IF s # <<>> /\ Head(s) \in S THEN LStrip(Tail(s), S) ELSE s

RECURSIVE RStrip(_, _)
RStrip(s, S) ==
    IF s # <<>> /\ s[Len(s)] \in S
    THEN RStrip(SubSeq(s, 1, Len(s) - 1), S) ELSE s

Strip(s, S) == LStrip(RStrip(s, S), S)

\* s.startswith(p)
StartsWith(s, p) == Len(s) >= Len(p) /\ SubSeq(s, 1, Len(p)) = p

\* s[n:]
From(s, n) == SubSeq(s, n + 1, Len(s))


(***************************************************************************)
(* Character tables (clean.py lines 24-137)                                *)
(***************************************************************************)
superscript_ht ==
       "0" :> <<"U+2070">>
    @@ "1" :> <<"U+00B9">>
    @@ "2" :> <<"U+00B2">>
    @@ "3" :> <<"U+00B3">>
    @@ "4" :> <<"U+2074">>
    @@ "5" :> <<"U+2075">>
    @@ "6" :> <<"U+2076">>
    @@ "7" :> <<"U+2077">>
    @@ "8" :> <<"U+2078">>
    @@ "9" :> <<"U+2079">>
    @@ "+" :> <<"U+207A">>
    @@ "-" :> <<"U+207B">>
    @@ "U+2212" :> <<"U+207B">>
    @@ "U+2010" :> <<"U+207B">>
    @@ "U+2013" :> <<"U+207B">>
    @@ "U+2014" :> <<"U+207B">>
    @@ "U+4E00" :> <<"U+207B">>
    @@ "=" :> <<"U+207C">>
    @@ "(" :> <<"U+207D">>
    @@ ")" :> <<"U+207E">>
    @@ "A" :> <<"U+1D2C">>
    @@ "B" :> <<"U+1D2E">>
    @@ "D" :> <<"U+1D30">>
    @@ "E" :> <<"U+1D31">>
    @@ "G" :> <<"U+1D33">>
    @@ "H" :> <<"U+1D34">>
    @@ "I" :> <<"U+1D35">>
    @@ "J" :> <<"U+1D36">>
    @@ "K" :> <<"U+1D37">>
    @@ "L" :> <<"U+1D38">>
    @@ "M" :> <<"U+1D39">>
    @@ "N" :> <<"U+1D3A">>
    @@ "O" :> <<"U+1D3C">>
    @@ "P" :> <<"U+1D3E">>
    @@ "R" :> <<"U+1D3F">>
    @@ "T" :> <<"U+1D40">>
    @@ "U" :> <<"U+1D41">>
    @@ "V" :> <<"U+2C7D">>
    @@ "W" :> <<"U+1D42">>
    @@ "a" :> <<"U+1D43">>
    @@ "b" :> <<"U+1D47">>
    @@ "c" :> <<"U+1D9C">>
    @@ "d" :> <<"U+1D48">>
    @@ "e" :> <<"U+1D49">>
    @@ "f" :> <<"U+1DA0">>
    @@ "g" :> <<"U+1D4D">>
    @@ "h" :> <<"U+02B0">>
    @@ "i" :> <<"U+2071">>
    @@ "j" :> <<"U+02B2">>
    @@ "k" :> <<"U+1D4F">>
    @@ "l" :> <<"U+02E1">>
    @@ "m" :> <<"U+1D50">>
    @@ "n" :> <<"U+207F">>
    @@ "o" :> <<"U+1D52">>
    @@ "p" :> <<"U+1D56">>
    @@ "r" :> <<"U+02B3">>
    @@ "s" :> <<"U+02E2">>
    @@ "t" :> <<"U+1D57">>
    @@ "u" :> <<"U+1D58">>
    @@ "v" :> <<"U+1D5B">>
    @@ "w" :> <<"U+02B7">>
    @@ "x" :> <<"U+02E3">>
    @@ "y" :> <<"U+02B8">>
    @@ "z" :> <<"U+1DBB">>
    @@ "U+03B2" :> <<"U+1D5D">>
    @@ "U+03B3" :> <<"U+1D5E">>
    @@ "U+03B4" :> <<"U+1D5F">>
    @@ "U+03B8" :> <<"U+1DBF">>
    @@ "U+03B9" :> <<"U+1DA5">>
    @@ "U+03C6" :> <<"U+1D60">>
    @@ "U+03C7" :> <<"U+1D61">>
    @@ "U+221E" :> <<"U+2002", "U+1AB2">>

subscript_ht ==
       "0" :> <<"U+2080">>
    @@ "1" :> <<"U+2081">>
    @@ "2" :> <<"U+2082">>
    @@ "3" :> <<"U+2083">>
    @@ "4" :> <<"U+2084">>
    @@ "5" :> <<"U+2085">>
    @@ "6" :> <<"U+2086">>
    @@ "7" :> <<"U+2087">>
    @@ "8" :> <<"U+2088">>
    @@ "9" :> <<"U+2089">>
    @@ "+" :> <<"U+208A">>
    @@ "-" :> <<"U+208B">>
    @@ "U+2212" :> <<"U+208B">>
    @@ "=" :> <<"U+208C">>
    @@ "(" :> <<"U+208D">>
    @@ ")" :> <<"U+208E">>
    @@ "a" :> <<"U+2090">>
    @@ "e" :> <<"U+2091">>
    @@ "h" :> <<"U+2095">>
    @@ "i" :> <<"U+1D62">>
    @@ "j" :> <<"U+2C7C">>
    @@ "k" :> <<"U+2096">>
    @@ "l" :> <<"U+2097">>
    @@ "m" :> <<"U+2098">>
    @@ "n" :> <<"U+2099">>
    @@ "o" :> <<"U+2092">>
    @@ "p" :> <<"U+209A">>
    @@ "r" :> <<"U+1D63">>
    @@ "s" :> <<"U+209B">>
    @@ "t" :> <<"U+209C">>
    @@ "u" :> <<"U+1D64">>
    @@ "v" :> <<"U+1D65">>
    @@ "x" :> <<"U+2093">>
    @@ "U+0259" :> <<"U+2094">>
    @@ "U+03C1" :> <<"U+1D68">>
    @@ "U+03C6" :> <<"U+1D69">>
    @@ "U+03C7" :> <<"U+1D6A">>

(***************************************************************************)
(* ScriptConverter (clean.py lines 140-164)                                *)
(***************************************************************************)
AllIn(text, ht) == \A i \in 1..Len(text) : text[i] \in DOMAIN ht

MapChars(text, ht) == Flatten([i \in 1..Len(text) |-> ht[text[i]]])

\* a converter that maps the mapped characters one by one and leaves the
\* others in place
to_superscript_partial(text) ==
    Flatten([i \in 1..Len(text) |->
                IF text[i] \in DOMAIN superscript_ht
                THEN superscript_ht[text[i]] ELSE <<text[i]>>])

\* a converter whose fallback always parenthesises
to_superscript_paren(text) ==
    IF text = <<>> THEN <<>>
    ELSE IF AllIn(text, superscript_ht) THEN MapChars(text, superscript_ht)
    ELSE <<"^", "(">> \o text \o <<")">>

to_superscript(text) ==
    IF text = <<>> THEN <<>>
    ELSE IF AllIn(text, superscript_ht) THEN MapChars(text, superscript_ht)
    ELSE IF Len(text) = 1 THEN <<"^">> \o text
    ELSE <<"^", "(">> \o text \o <<")">>

to_subscript(text) ==
    IF text = <<>> THEN <<>>
    ELSE IF AllIn(text, subscript_ht) THEN MapChars(text, subscript_ht)
    ELSE IF Len(text) = 1 THEN <<"_">> \o text
    ELSE <<"_", "(">> \o text \o <<")">>

\* a converter that subscripts every character, digit or not
to_chem_all(text) ==
    Flatten([i \in 1..Len(text) |-> to_subscript(<<text[i]>>)])

to_chem(text) ==
    Flatten([i \in 1..Len(text) |->
                IF IsDigit(text[i]) THEN to_subscript(<<text[i]>>)
                ELSE <<text[i]>>])

(***************************************************************************)
(* EmphasisResolver (clean.py lines 1251-1326)                             *)
(***************************************************************************)
\* the pieces of s between the matches ms
SplitPieces(s, ms) ==
    [k \in 1..(Len(ms) + 1) |->
        SubSeq(s, IF k = 1 THEN 1 ELSE ms[k - 1].to,
                  IF k > Len(ms) THEN Len(s) ELSE ms[k].from - 1)]

\* re.split(re, s) for a pattern without capturing group
SplitRe(re, s) == SplitPieces(s, FindAll(re, s))

\* the pieces of s between the matches ms and, at the even positions, the
\* matches themselves
KeepPieces(s, ms) ==
    [k \in 1..(2 * Len(ms) + 1) |->
        IF k % 2 = 1 THEN SplitPieces(s, ms)[(k + 1) \div 2]
        ELSE Group0(ms[k \div 2])]

\* re.split(re, s) for a pattern that is one capturing group: the
\* separators are kept, at the even positions of the result
SplitKeep(re, s) == KeepPieces(s, FindAll(re, s))

\* (\n+)
LinesRe == <<Plus(Lit(<<"\n">>))>>

\* (''+)
parts_re == Lit(<<"'">>) \o <<Plus(Lit(<<"'">>))>>

Apos2 == <<"'", "'">>

Apos3 == <<"'", "'", "'">>

Apos5 == <<"'", "'", "'", "'", "'">>

RECURSIVE bold_follows_from(_, _)
\* the loop of bold_follows over parts[j..]
bold_follows_from(parts, j) ==
    IF j > Len(parts) THEN FALSE
    ELSE IF ~StartsWith(parts[j], Apos2) THEN bold_follows_from(parts, j + 1)
    ELSE IF StartsWith(parts[j], Apos3) THEN TRUE
    ELSE bold_follows_from(parts, j + 1)

\* bold_follows(parts, i): parts is 1-based here, so this is the source's
\* bold_follows(parts, i - 1)
bold_follows_next(parts, i) ==
    i + 2 <= Len(parts) /\ StartsWith(parts[i + 2], Apos3)

bold_follows(parts, i) == bold_follows_from(parts, i + 1)

\* the state after a part that starts with five apostrophes
\* (0 = in nothing, 1 = in italic, 2 = in bold, 3 = in both)
AfterFive_both(st) == IF st = 3 THEN 0 ELSE 3

AfterFive(st) == CASE st = 1 -> 2 [] st = 2 -> 1 [] st = 3 -> 0 [] OTHER -> 3

\* the state after a part that starts with three apostrophes and is not
\* met in italic
AfterThree_italic(st) == CASE st = 2 -> 3 [] st = 3 -> 2 [] OTHER -> 1

AfterThree(st) == CASE st = 2 -> 0 [] st = 3 -> 1 [] OTHER -> 2

\* the state after a part that starts with two apostrophes
AfterTwo(st) == CASE st = 1 -> 0 [] st = 2 -> 3 [] st = 3 -> 2 [] OTHER -> 1

\* One iteration of the loop over the parts of a line: what is appended to
\* new_text_parts for parts[i] met in state st, and the state afterwards
EmphasisStep(parts, i, st) ==
    LET part == parts[i] IN
    IF StartsWith(part, Apos5) THEN
        [out |-> From(part, 5), st |-> AfterFive(st)]
    ELSE IF StartsWith(part, Apos3) THEN
        IF st = 1 THEN
            IF bold_follows(parts, i)
            THEN [out |-> From(part, 3), st |-> 3]
            ELSE [out |-> From(part, 2), st |-> 0]
        ELSE [out |-> From(part, 3), st |-> AfterThree(st)]
    ELSE IF StartsWith(part, Apos2) THEN
        [out |-> From(part, 2), st |-> AfterTwo(st)]
    ELSE [out |-> part, st |-> st]

\* "state = 0" at the start of the body of "for line in lines", whatever
\* the state st the line before ended in
LineStartState_kept(st) == st

LineStartState(st) == 0

RECURSIVE EmphasisParts(_, _, _)
\* the loop "for i, part in enumerate(parts)" from index i on
EmphasisParts(parts, i, st) ==
    IF i > Len(parts) THEN <<>>
    ELSE LET r == EmphasisStep(parts, i, st)
         IN r.out \o EmphasisParts(parts, i + 1, r.st)

\* the body of "for line in lines": the line without its markers, then "\n"
EmphasisLine(line) ==
    EmphasisParts(SplitKeep(parts_re, line), 1, 0) \o <<"\n">>

\* the loop "for line in lines", new_text_parts joined
EmphasisLines(lines) ==
    JoinMap(LAMBDA k : EmphasisLine(lines[k]), 1, Len(lines))

\* new_text_parts[:-1]: the "\n" appended after the last line is removed
DropLast_kept(joined) == joined

DropLast(joined) == SubSeq(joined, 1, Len(joined) - 1)

remove_italic_and_bold(text) ==
    DropLast(EmphasisLines(SplitKeep(LinesRe, text)))


(***************************************************************************)
(* MarkupStripper: clean_value (clean.py lines 1329-1595)                  *)
(*                                                                         *)
(* wxr is the part of the context that clean_value reads: the prefixes of  *)
(* the File namespace (wxr.wtp.namespace_prefixes) and the name and the    *)
(* aliases of the Category namespace (wxr.wtp.NAMESPACE_DATA).             *)
(***************************************************************************)
\* \s
ws == Ch(Space)

\* re.compile(rf"(?:{'|'.join(image_link_prefixes)})\s*:", re.IGNORECASE)
CompileImageLinkRe(prefixes) ==
    <<Alt([i \in 1..Len(prefixes) |-> LitCI(prefixes[i])]), Star(<<ws>>)>>
        \o Lit(<<":">>)

\* NOT_INLINE_IMG_RE: \|\s*(right|left|center|thumb|frame)\s*\|
NOT_INLINE_IMG_RE ==
    Lit(<<"|">>)
    \o <<Star(<<ws>>),
         Grp(1, <<Alt(<<Lit(<<"r", "i", "g", "h", "t">>),
                        Lit(<<"l", "e", "f", "t">>),
                        Lit(<<"c", "e", "n", "t", "e", "r">>),
                        Lit(<<"t", "h", "u", "m", "b">>),
                        Lit(<<"f", "r", "a", "m", "e">>)>>)>>),
         Star(<<ws>>)>>
    \o Lit(<<"|">>)

\* URL_STARTS_RE, for the URL_STARTS of wikitextprocessor that the model's
\* alphabets can spell, under re.IGNORECASE
URL_STARTS_RE ==
    <<Grp(1, <<Alt(<<Lit(<<"/", "/">>),
                     LitCI(<<"h", "t", "t", "p", ":", "/", "/">>),
                     LitCI(<<"h", "t", "t", "p", "s", ":", "/", "/">>),
                     LitCI(<<"m", "a", "i", "l", "t", "o", ":">>)>>)>>)>>

\* \{\|((?!\{\|)(?!\|\}).)*\|\}  with re.DOTALL
TableRe_any ==
    Lit(<<"{", "|">>) \o <<Star(<<Grp(1, <<NCh({})>>)>>)>> \o Lit(<<"|", "}">>)

TableRe ==
    Lit(<<"{", "|">>)
    \o <<Star(<<Grp(1, <<NotAhead(Lit(<<"{", "|">>)),
                         NotAhead(Lit(<<"|", "}">>)),
                         NCh({})>>)>>)>>
    \o Lit(<<"|", "}">>)

\* re.sub with count=1: only the leftmost match becomes "\n"
TablePass_first(title) ==
    LET ms == FindAll(TableRe, title)
    IN Replace(title, IF ms = <<>> THEN ms ELSE <<ms[1]>>, LAMBDA m : <<"\n">>)

\* one pass of the table loop: every match becomes "\n"
TablePass(title) == ReSub(TableRe, LAMBDA m : <<"\n">>, title)

RECURSIVE TableLoop(_, _)
\* prev = ""; while title != prev: prev = title; title = re.sub(...)
TableLoop(title, prev) ==
    IF title = prev THEN title ELSE TableLoop(TablePass(title), title)

\* The substitutions of lines 1424 and 1438-1512 (nowiki, ref, span, br,
\* div, sup, sub, chem, math, syntaxhighlight, remaining tags, "[...]",
\* links in superscript, edit links).  Every one of these patterns contains
\* a literal "<", "^" or "." or the word "edit"; a title with none of
\* these is returned as it is, which is the only case the specifications
\* below produce.
HtmlSteps(title) == title

\* the category pattern without re.IGNORECASE
CategoryRe_cs(wxr) ==
    <<Star(<<ws>>)>> \o Lit(<<"[", "[">>)
    \o <<Star(<<ws>>),
         Alt(<<Lit(<<"C", "a", "t", "e", "g", "o", "r", "y">>),
               Lit(wxr.category_name)>>
             \o [i \in 1..Len(wxr.category_aliases) |->
                    Lit(wxr.category_aliases[i])]),
         Star(<<ws>>)>>
    \o Lit(<<":">>)
    \o <<Star(<<ws>>), Grp(1, <<PlusLazy(<<NCh({"]"})>>)>>), Star(<<ws>>)>>
    \o Lit(<<"]", "]">>)

\* (?si)\s*\[\[\s*{category_names_pattern}\s*:\s*([^]]+?)\s*\]\]
CategoryRe(wxr) ==
    <<Star(<<ws>>)>> \o Lit(<<"[", "[">>)
    \o <<Star(<<ws>>),
         Alt(<<LitCI(<<"C", "a", "t", "e", "g", "o", "r", "y">>),
               LitCI(wxr.category_name)>>
             \o [i \in 1..Len(wxr.category_aliases) |->
                    LitCI(wxr.category_aliases[i])]),
         Star(<<ws>>)>>
    \o Lit(<<":">>)
    \o <<Star(<<ws>>), Grp(1, <<PlusLazy(<<NCh({"]"})>>)>>), Star(<<ws>>)>>
    \o Lit(<<"]", "]">>)

\* (?s)\[\[\s*:?([^]|#<>:&]+?)\s*(#[^][|<>]*?)?\]\]
PlainLinkRe ==
    Lit(<<"[", "[">>)
    \o <<Star(<<ws>>), Opt(Lit(<<":">>)),
         Grp(1, <<PlusLazy(<<NCh({"]", "|", "#", "<", ">", ":", "&"})>>)>>),
         Star(<<ws>>),
         Opt(<<Grp(2, Lit(<<"#">>)
                       \o <<StarLazy(<<NCh({"]", "[", "|", "<", ">"})>>)>>)>>)>>
    \o Lit(<<"]", "]">>)

\* (?s)\[\[\s*(([\w\d]+)\s*:)?\s*([^][#|<>]+?)\s*(#[^][|]*?)?\|?\]\]
PrefixLinkRe ==
    Lit(<<"[", "[">>)
    \o <<Star(<<ws>>),
         Opt(<<Grp(1, <<Grp(2, <<Plus(<<Ch(Word \cup Digits)>>)>>),
                        Star(<<ws>>)>> \o Lit(<<":">>))>>),
         Star(<<ws>>),
         Grp(3, <<PlusLazy(<<NCh({"]", "[", "#", "|", "<", ">"})>>)>>),
         Star(<<ws>>),
         Opt(<<Grp(4, Lit(<<"#">>)
                       \o <<StarLazy(<<NCh({"]", "[", "|"})>>)>>)>>),
         Opt(Lit(<<"|">>))>>
    \o Lit(<<"]", "]">>)

\* ([^][|]|\[[^]]*\]) as capturing group n
LabelItem(n) ==
    Grp(n, <<Alt(<< <<NCh({"]", "[", "|"})>>,
                    Lit(<<"[">>) \o <<Star(<<NCh({"]"})>>)>>
                        \o Lit(<<"]">>) >>)>>)

\* (?s)\[\[\s*([^][|<>]+?)\s*\|\s*(([^][|]|\[[^]]*\])+?)
\*     (\s*\|\s*(([^][|]|\[[^]]*\])+?))*\s*\|*\]\]
PipedLinkRe ==
    Lit(<<"[", "[">>)
    \o <<Star(<<ws>>),
         Grp(1, <<PlusLazy(<<NCh({"]", "[", "|", "<", ">"})>>)>>),
         Star(<<ws>>)>>
    \o Lit(<<"|">>)
    \o <<Star(<<ws>>),
         Grp(2, <<PlusLazy(<<LabelItem(3)>>)>>),
         Star(<<Grp(4, <<Star(<<ws>>)>> \o Lit(<<"|">>)
                         \o <<Star(<<ws>>),
                              Grp(5, <<PlusLazy(<<LabelItem(6)>>)>>)>>)>>),
         Star(<<ws>>),
         Star(Lit(<<"|">>))>>
    \o Lit(<<"]", "]">>)

\* \|\s*alt\s*=([^]|]+)(\||\]\])
AltTextRe ==
    Lit(<<"|">>) \o <<Star(<<ws>>)>> \o Lit(<<"a", "l", "t">>)
    \o <<Star(<<ws>>)>> \o Lit(<<"=">>)
    \o <<Grp(1, <<Plus(<<NCh({"]", "|"})>>)>>),
         Grp(2, <<Alt(<<Lit(<<"|">>), Lit(<<"]", "]">>)>>)>>)>>

\* \[\s*((https?:|mailto:)?//([^][]+?))\s*\]
ExtUrlRe ==
    Lit(<<"[">>)
    \o <<Star(<<ws>>),
         Grp(1, <<Opt(<<Grp(2, <<Alt(<<Lit(<<"h", "t", "t", "p">>)
                                          \o <<Opt(Lit(<<"s">>))>>
                                          \o Lit(<<":">>),
                                        Lit(<<"m", "a", "i", "l", "t", "o",
                                              ":">>)>>)>>)>>)>>
                  \o Lit(<<"/", "/">>)
                  \o <<Grp(3, <<PlusLazy(<<NCh({"]", "["})>>)>>)>>),
         Star(<<ws>>)>>
    \o Lit(<<"]">>)

SkipUrlStarts_one(args, i) ==
    IF i < Len(args) /\ ReMatch(URL_STARTS_RE, args[i]) # <<>>
    THEN i + 1 ELSE i

RECURSIVE SkipUrlStarts(_, _)
\* the while loop of repl_exturl: the index (1-based) of the first of
\* args[i..] that is kept; the last argument is never skipped
SkipUrlStarts(args, i) ==
    IF i < Len(args) /\ ReMatch(URL_STARTS_RE, args[i]) # <<>>
    THEN SkipUrlStarts(args, i + 1) ELSE i

\* " ".join(args[i:]) for the index the while loop stops at
JoinFrom(args, i) == JoinWith(SubSeq(args, i, Len(args)), <<" ">>)

\* args[i:] joined, i being where the while loop stops
JoinKept(args) == JoinFrom(args, SkipUrlStarts(args, 1))

repl_exturl(m) == JoinKept(SplitRe(<<Plus(<<ws>>)>>, Group(m, 1)))

\* one pass of the URL loop
UrlPass(title) == ReSub(ExtUrlRe, repl_exturl, title)

RECURSIVE UrlIter(_, _)
\* the rest of the URL loop after a pass that turned orig into title
UrlIter(title, orig) ==
    IF title = orig THEN title ELSE UrlIter(UrlPass(title), title)

\* while True: orig = title; title = re.sub(...); if title == orig: break
UrlLoop(title) == UrlIter(UrlPass(title), title)

\* html.unescape restricted to the titles without "&", which it returns
\* unchanged (html/__init__.py: "if '&' not in s: return s")
html_unescape(title) == title

\* unicodedata.normalize("NFC", title) for titles without combining marks:
\* only the characters with a singleton canonical decomposition change
NFC(title) ==
    [i \in 1..Len(title) |->
        CASE title[i] = "U+2000" -> "U+2002"
          [] title[i] = "U+2001" -> "U+2003"
          [] OTHER -> title[i]]

\* title.replace("\xa0", " ")
ReplaceNbsp(title) ==
    [i \in 1..Len(title) |-> IF title[i] = "U+00A0" THEN " " ELSE title[i]]

\* if not no_strip: title = title.strip()
StripUnless(title, no_strip) ==
    IF no_strip THEN title ELSE Strip(title, Space)

\* the steps of clean_value after the link and URL loops (lines 1563-1595),
\* the first one innermost
Finish(title, no_strip) ==
    NFC(StripUnless(
        \* \[\s*...\s*\] -> "[...]" around U+2026
        ReSub(Lit(<<"[">>) \o <<Star(<<ws>>)>> \o Lit(<<"U+2026">>)
                  \o <<Star(<<ws>>)>> \o Lit(<<"]">>),
              LAMBDA m7 : <<"[", "U+2026", "]">>,
        \*  *\n+ -> "\n"
        ReSub(<<Star(Lit(<<" ">>)), Plus(Lit(<<"\n">>))>>,
              LAMBDA m6 : <<"\n">>,
        \* [ \t\r\u2002]+ -> " "
        ReSub(<<Plus(<<Ch({" ", "\t", "\r", "U+2002"})>>)>>,
              LAMBDA m5 : <<" ">>,
        \* [\u200e\u200f\u200b\u200d\u200c\ufeff] -> ""
        ReSub(<<Ch({"U+200E", "U+200F", "U+200B", "U+200D", "U+200C",
                    "U+FEFF"})>>,
              LAMBDA m4 : <<>>,
        ReplaceNbsp(html_unescape(remove_italic_and_bold(title))))))),
        no_strip))

RECURSIVE clean_value(_, _, _, _)
RECURSIVE LinkLoop(_, _, _)

\* repl_1
repl_1(wxr, image_re, m) == clean_value(wxr, image_re, Group(m, 1), TRUE)

repl_link(wxr, image_re, m) ==
    IF HasGroup(m, 1) /\ ReMatch(image_re, Group(m, 1)) # <<>> THEN <<>>
    ELSE
      LET v == IF HasGroup(m, 1)
                  /\ Strip(Group(m, 1), {":", " "}) \in {<<"w">>, <<"s">>}
               THEN FirstField(Group(m, 3), "|")
               ELSE FirstField(Strip(Group0(m), {"[", "]", " "}), "|")
      IN clean_value(wxr, image_re, v, TRUE)

\* m.group(2) or "": the first label instead of the last one
repl_link_bars_first(wxr, image_re, m) ==
    clean_value(wxr, image_re,
                IF HasGroup(m, 2) THEN Group(m, 2) ELSE <<>>, TRUE)

repl_link_bars(wxr, image_re, m) ==
    IF ReMatch(image_re, Group(m, 1)) # <<>> THEN
        LET alt_m == ReSearch(AltTextRe, Group0(m)) IN
        IF ReMatch(NOT_INLINE_IMG_RE, Group0(m)) = <<>>
              /\ Contains(Group0(m), <<"a", "l", "t">>)
              /\ alt_m # <<>>
        THEN <<"[", "A", "l", "t", ":", " ">> \o Group(alt_m, 1) \o <<"]">>
        ELSE <<>>
    ELSE
      \* m.group(5) or m.group(2) or ""
      clean_value(wxr, image_re,
                  IF HasGroup(m, 5) /\ Group(m, 5) # <<>> THEN Group(m, 5)
                  ELSE IF HasGroup(m, 2) THEN Group(m, 2) ELSE <<>>,
                  TRUE)

\* one pass of the link loop: the four substitutions, the first innermost
LinkPass(wxr, image_re, title) ==
    ReSub(PipedLinkRe, LAMBDA m4 : repl_link_bars(wxr, image_re, m4),
    ReSub(PrefixLinkRe, LAMBDA m3 : repl_link(wxr, image_re, m3),
    ReSub(PlainLinkRe, LAMBDA m2 : repl_1(wxr, image_re, m2),
    ReSub(CategoryRe(wxr), LAMBDA m1 : <<>>, title))))

RECURSIVE LinkIter(_, _, _, _)
\* the rest of the link loop after a pass that turned orig into title
LinkIter(wxr, image_re, title, orig) ==
    IF title = orig THEN title
    ELSE LinkIter(wxr, image_re, LinkPass(wxr, image_re, title), title)

\* while True: orig = title; the substitutions; if title == orig: break
LinkLoop(wxr, image_re, title) ==
    LinkIter(wxr, image_re, LinkPass(wxr, image_re, title), title)

\* lines 1563-1595 run on the value title has when the URL loop is left
AfterUrls(title, no_strip) == Last(<<title, Finish(title, no_strip)>>)

\* lines 1555-1561 run on the value title has when the link loop is left
AfterLinks(title, no_strip) ==
    Last(<<title, AfterUrls(UrlLoop(title), no_strip)>>)

\* lines 1523-1553 run on the value title has after the HTML steps
AfterTables(wxr, image_re, title, no_strip) ==
    Last(<<title, AfterLinks(LinkLoop(wxr, image_re, title), no_strip)>>)

\* clean_value(wxr, title, no_strip) once IMAGE_LINK_RE holds image_re:
\* each statement assigns title before the next one reads it
clean_value(wxr, image_re, title, no_strip) ==
    AfterTables(wxr, image_re, HtmlSteps(TableLoop(title, <<>>)), no_strip)


(***************************************************************************)
(* MathRenderer: to_math (clean.py lines 169-1248)                         *)
(*                                                                         *)
(* The results of the nested functions of to_math are records: text is    *)
(* the string returned, vec the list magic_vec after the call, err is TRUE *)
(* when the call raised an exception (text is then meaningless) and log is *)
(* TRUE when the call printed "MATH FRAC/BINOM ERROR".                      *)
(***************************************************************************)

\* chr(MAGIC_FIRST + n) for the first code points of the magic range
\* (MAGIC_FIRST is 0x10203E in wikitextprocessor.common)
MagicChars ==
    <<"U+10203E", "U+10203F", "U+102040", "U+102041", "U+102042",
      "U+102043", "U+102044", "U+102045">>

\* chr(MAGIC_FIRST + n)
Magic(n) == MagicChars[n + 1]

NextMagic_first(magic_vec) == Magic(0)

\* chr(MAGIC_FIRST + len(magic_vec)) (line 1115)
NextMagic(magic_vec) == Magic(Len(magic_vec))

\* ord(c) - MAGIC_FIRST
MagicIndex(c) == (CHOOSE j \in 1..Len(MagicChars) : MagicChars[j] = c) - 1

\* [MAGIC_FIRST-MAGIC_LAST]
MagicRe == <<Ch({MagicChars[j] : j \in 1..Len(MagicChars)})>>

\* math_map, mathcal_map, mathfrak_map and mathbb_map restricted to the
\* keys that consist of characters of the alphabets of the specifications
math_map ==
    (<<"r", "a", "r", "r">> :> <<"U+2192">>)
    @@ (<<"s", "q", "r", "t">> :> <<"U+221A">>)

mathcal_map == ("x" :> "U+1D4CD")

mathfrak_map == [c \in {} |-> c]

mathbb_map == ("x" :> "U+1D569") @@ ("1" :> "U+1D7D9") @@ ("2" :> "U+1D7DA")

\* "".join(map.get(x, x) for x in text)
MapGet(map, text) ==
    [j \in 1..Len(text) |->
        IF text[j] \in DOMAIN map THEN map[text[j]] ELSE text[j]]

\* the function expand_group binds to fn, applied to text
ApplyFn(f, text) ==
    CASE f = "mathcal_fn" -> MapGet(mathcal_map, text)
      [] f = "mathfrak_fn" -> MapGet(mathfrak_map, text)
      [] f = "mathbb_fn" -> MapGet(mathbb_map, text)
      [] f = "to_subscript" -> to_subscript(text)
      [] f = "to_superscript" -> to_superscript(text)

\* str.isalpha() of one character
IsAlpha(c) == c \in Letters \cup OtherLetters

\* str.isalnum()
IsAlnum(text) ==
    text # <<>> /\ \A j \in 1..Len(text) : IsAlpha(text[j]) \/ IsDigit(text[j])

\* str.isspace()
IsSpace(text) == text # <<>> /\ \A j \in 1..Len(text) : text[j] \in Space

RECURSIVE expand(_, _)
\* the end of an iteration of the loop of expand: t is the text after the
\* substitution
ExpandAgain(text, magic_vec, t) ==
    IF t = text THEN [text |-> text, err |-> FALSE]
    ELSE expand(t, magic_vec)

\* the substitution of expand for the magic characters ms of text: an
\* index past the end of magic_vec is an IndexError
ExpandMatches(text, magic_vec, ms) ==
    IF \E j \in 1..Len(ms) :
          MagicIndex(Group0(ms[j])[1]) >= Len(magic_vec)
    THEN [text |-> <<>>, err |-> TRUE]
    ELSE ExpandAgain(text, magic_vec,
                     Replace(text, ms,
                             LAMBDA m :
                                 magic_vec[MagicIndex(Group0(m)[1]) + 1]))

\* expand (lines 1088-1100): every magic character is replaced by its entry
\* of magic_vec until nothing changes
expand(text, magic_vec) ==
    ExpandMatches(text, magic_vec, FindAll(MagicRe, text))

\* \name as a pattern
Cmd(name) == Lit(<<"\\">> \o name)

\* \\[a-zA-Z]+|\\.|.
UnitAlts == <<<<Ch({"\\"}), Plus(<<Ch(Letters)>>)>>, <<Ch({"\\"}), Dot>>, <<Dot>>>>

\* \\(frac|binom)($|[0-9]|\b)
FracStartRe ==
    <<Ch({"\\"}),
      Grp(1, <<Alt(<<Lit(<<"f", "r", "a", "c">>),
                     Lit(<<"b", "i", "n", "o", "m">>)>>)>>),
      Grp(2, <<Alt(<<<<EndOfString>>, <<Ch(Digits)>>, <<WordBoundary>>>>)>>)>>

\* \\(frac|binom)\s*(\\[a-zA-Z]+|\\.|.)\s*(\\[a-zA-Z]+|\\.|.)$
FracArgsRe ==
    <<Ch({"\\"}),
      Grp(1, <<Alt(<<Lit(<<"f", "r", "a", "c">>),
                     Lit(<<"b", "i", "n", "o", "m">>)>>)>>),
      Star(<<ws>>), Grp(2, <<Alt(UnitAlts)>>),
      Star(<<ws>>), Grp(3, <<Alt(UnitAlts)>>), EndOfString>>

\* lines 1186-1196 for the name after the backslash of v
MapName(name) ==
    IF name \in DOMAIN math_map THEN math_map[name]
    ELSE IF IsAlnum(name) THEN <<" ">> \o name \o <<" ">>
    ELSE name

\* lines 1186-1196: a command is looked up in math_map, white space and
\* "&" are dropped
MapCommand(v) ==
    IF StartsWith(v, <<"\\">>) THEN MapName(Strip(From(v, 1), Space))
    ELSE IF IsSpace(v) \/ v = <<"&">> THEN <<>>
    ELSE v

\* v = fn(v); v = expand(v), e being the result of the expand before
ApplyThenExpand(f, e, magic_vec) ==
    IF e.err THEN e ELSE expand(ApplyFn(f, e.text), magic_vec)

\* lines 1197-1200: if fn is not None: v = expand(v); v = fn(v)
\* and then v = expand(v)
ExpandWithFn(f, v, magic_vec) ==
    IF f = "None" THEN expand(v, magic_vec)
    ELSE ApplyThenExpand(f, expand(v, magic_vec), magic_vec)

\* a result of expand as a result of expand_group
WithLog(e, log) == [text |-> e.text, err |-> e.err, log |-> log]

\* the end of expand_group (lines 1186-1201), with fn and v as the branch
\* taken has left them
ExpandGroupEnd(f, v, magic_vec) ==
    WithLog(ExpandWithFn(f, MapCommand(v), magic_vec), FALSE)

Parenthesise_always(a) == <<"(">> \o a \o <<")">>

\* if len(a) > 1: a = "(" + a + ")" (lines 1170-1173)
Parenthesise(a) == IF Len(a) > 1 THEN <<"(">> \o a \o <<")">> ELSE a

RECURSIVE expand_group(_, _)
\* expand_group (lines 1127-1201)
expand_group(v, magic_vec) ==
    LET Matches(re) == ReMatch(re, v) # <<>>
        Raised == [text |-> <<>>, err |-> TRUE, log |-> FALSE]
    IN
    IF Matches(Cmd(<<"m", "a", "t", "h", "c", "a", "l">>) \o <<WordBoundary>>)
    THEN ExpandGroupEnd("mathcal_fn", Strip(From(v, 8), Space), magic_vec)
    ELSE IF Matches(Cmd(<<"m", "a", "t", "h", "f", "r", "a", "k">>)
                        \o <<WordBoundary>>)
    THEN ExpandGroupEnd("mathfrak_fn", Strip(From(v, 9), Space), magic_vec)
    ELSE IF Matches(Cmd(<<"m", "a", "t", "h", "b", "b">>) \o <<WordBoundary>>)
    THEN ExpandGroupEnd("mathbb_fn", From(v, 7), magic_vec)
    ELSE IF Matches(<<Ch({"\\"}),
                      Grp(1, <<Alt(<<Lit(<<"b", "e", "g", "i", "n">>),
                                     Lit(<<"e", "n", "d">>)>>)>>),
                      WordBoundary>>)
    THEN ExpandGroupEnd("None", <<>>, magic_vec)
    ELSE IF Matches(Cmd(<<"t", "e", "x", "t">>) \o <<WordBoundary>>)
    THEN ExpandGroupEnd("None", From(v, 5), magic_vec)
    ELSE IF Matches(Cmd(<<"p", "m", "o", "d">>) \o <<WordBoundary>>)
    THEN LET inner == expand_group(Strip(From(v, 5), Space), magic_vec)
             end == ExpandGroupEnd("None",
                                   <<"(", "m", "o", "d", " ">> \o inner.text
                                       \o <<")">>, magic_vec)
         IN IF inner.err THEN Raised
            ELSE [end EXCEPT !.log = inner.log]
    ELSE IF Matches(Cmd(<<"s", "q", "r", "t">>) \o Lit(<<"[">>))
    THEN LET a == Strip(SubSeq(v, 7, Len(v) - 1), Space)
         IN ExpandGroupEnd("None",
                           CASE a = <<"2">> -> <<"U+221A">>
                             [] a = <<"3">> -> <<"U+221B">>
                             [] a = <<"4">> -> <<"U+221C">>
                             [] OTHER -> to_superscript(a) \o <<"U+221A">>,
                           magic_vec)
    ELSE IF Matches(Cmd(<<"s", "q", "r", "t">>)
                        \o <<Grp(1, <<Alt(<<<<EndOfString>>, <<Ch(Digits)>>,
                                            <<WordBoundary>>>>)>>)>>)
    THEN ExpandGroupEnd("None", <<"U+221A">>, magic_vec)
    ELSE IF Matches(FracStartRe)
    THEN LET m == ReMatch(FracArgsRe, v)
             ea == expand_group(Group(m, 2), magic_vec)
             eb == expand_group(Group(m, 3), magic_vec)
             a0 == Strip(ea.text, Space)
             b0 == Strip(eb.text, Space)
             a == Parenthesise(a0)
             b == Parenthesise(b0)
             end == ExpandGroupEnd(
                        "None",
                        IF Group(m, 1) = <<"f", "r", "a", "c">>
                        THEN a \o <<"/">> \o b
                        ELSE <<"b", "i", "n", "o", "m", "(">> \o a
                                 \o <<",", " ">> \o b \o <<")">>,
                        magic_vec)
         IN \* MATH FRAC/BINOM ERROR: v is returned as it is
            IF m = <<>> THEN [text |-> v, err |-> FALSE, log |-> TRUE]
            ELSE IF ea.err \/ eb.err THEN Raised
            ELSE [end EXCEPT !.log = ea.log \/ eb.log]
    ELSE IF StartsWith(v, <<"_">>)
    THEN ExpandGroupEnd("to_subscript", From(v, 1), magic_vec)
    ELSE IF StartsWith(v, <<"^">>)
    THEN ExpandGroupEnd("to_superscript", From(v, 1), magic_vec)
    ELSE ExpandGroupEnd("None", v, magic_vec)

\* \{([^{}]+)\}: the pattern math_magic builds for left = "{", right = "}"
BraceRe == Lit(<<"{">>) \o <<Grp(1, <<Plus(<<NCh({"{", "}"})>>)>>)>>
               \o Lit(<<"}">>)

\* the pattern of the finditer of recurse (lines 1209-1226)
TokenRe ==
    <<Alt(<<
        <<Plus(<<ws>>)>>,
        Cmd(<<"f", "r", "a", "c">>)
          \o <<Star(<<ws>>), Grp(1, <<Alt(UnitAlts)>>), Star(<<ws>>),
               Grp(2, <<Alt(<<
                   Cmd(<<"d", "o", "t">>)
                     \o <<Ch({"\\"}),
                          Grp(3, <<Alt(<<Lit(<<"b", "i", "g", "v", "e", "e">>),
                                         Lit(<<"c", "u", "p">>),
                                         Lit(<<"c", "a", "p">>),
                                         Lit(<<"l", "o", "r">>),
                                         Lit(<<"v", "e", "e">>)>>)>>)>>,
                   Cmd(<<"n", "o", "t">>)
                     \o <<Ch({"\\"}),
                          Grp(4, <<Alt(<<
                              Lit(<<"s", "u", "b", "s", "e", "t">>),
                              Lit(<<"s", "u", "p", "s", "e", "t">>),
                              Lit(<<"s", "u", "b", "s", "e", "t", "e", "q">>),
                              Lit(<<"s", "u", "p", "s", "e", "t", "e", "q">>),
                              Lit(<<"i", "n">>),
                              Lit(<<"n", "i">>),
                              Lit(<<"p", "r", "e", "c", "e", "q">>),
                              Lit(<<"s", "u", "c", "c", "e", "q">>),
                              Lit(<<"v", "a", "r", "t", "r", "i", "a", "n",
                                    "g", "l", "e", "l", "e", "f", "t", "e",
                                    "q">>),
                              Lit(<<"v", "a", "r", "t", "r", "i", "a", "n",
                                    "g", "l", "e", "r", "i", "g", "h", "t",
                                    "e", "q">>),
                              Lit(<<"t", "r", "i", "a", "n", "g", "l", "e",
                                    "l", "e", "f", "t", "e", "q">>),
                              Lit(<<"t", "r", "i", "a", "n", "g", "l", "e",
                                    "r", "i", "g", "h", "t", "e", "q">>)
                              >>)>>)>>,
                   Cmd(<<"w", "i", "d", "e", "h", "a", "t">>)
                     \o Lit(<<"{", "=", "}">>),
                   Cmd(<<"w", "i", "d", "e", "h", "a", "t">>) \o Lit(<<"=">>),
                   Cmd(<<"o", "v", "e", "r", "s", "e", "t">>)
                     \o <<Opt(Lit(<<"{">>))>> \o Lit(<<"}", "{", "=", "}">>),
                   Cmd(<<"o", "v", "e", "r", "s", "e", "t">>)
                     \o Lit(<<"?", "=">>),
                   Cmd(<<"o", "v", "e", "r", "s", "e", "t">>)
                     \o Lit(<<"{">>)
                     \o Cmd(<<"o", "p", "e", "r", "a", "t", "o", "r", "n",
                              "a", "m", "e">>)
                     \o Lit(<<"{", "d", "e", "f", "}", "}", "{", "=", "}">>)
                   >> \o UnitAlts)>>)>>,
        <<Opt(<<Grp(5, <<Alt(<<
               <<Ch({"\\"}),
                 Grp(6, <<Alt(<<Lit(<<"m", "a", "t", "h", "c", "a", "l">>),
                                Lit(<<"m", "a", "t", "h", "f", "r", "a", "k">>),
                                Lit(<<"m", "a", "t", "h", "b", "b">>),
                                Lit(<<"t", "e", "x", "t">>),
                                Lit(<<"b", "e", "g", "i", "n">>),
                                Lit(<<"e", "n", "d">>),
                                Lit(<<"p", "m", "o", "d">>)>>)>>),
                 WordBoundary, Star(<<ws>>)>>,
               Cmd(<<"s", "q", "r", "t">>)
                 \o <<WordBoundary,
                      Opt(<<Grp(7, Lit(<<"[">>) \o <<Plus(<<Ch(Digits)>>)>>
                                     \o Lit(<<"]">>))>>)>>
               >>)>>)>>),
          Opt(<<Ch({"_", "^"})>>),
          Grp(8, <<Alt(<<<<Ch({"\\"}), Plus(<<Ch(Letters)>>), Star(<<ws>>)>>,
                         <<Ch({"\\"}), Dot>>,
                         <<Plus(<<Ch(Word)>>)>>,
                         <<Dot>>>>)>>)>>
        >>)>>

RECURSIVE recurse(_, _)
RECURSIVE ReplaceGroups(_, _, _, _)

\* the result r of a call, the flag of the calls before it added
MergeLog(r, log) == [r EXCEPT !.log = log \/ r.log]

\* the text up to and including the k-th match, replaced by the magic
\* character chosen before the group was rendered, joined to the result
\* later of the matches after it
GroupJoined(text, ms, k, magic_vec, r, later) ==
    [text |-> SubSeq(text, IF k = 1 THEN 1 ELSE ms[k - 1].to, ms[k].from - 1)
                  \o <<NextMagic(magic_vec)>> \o later.text,
     vec |-> later.vec,
     err |-> later.err,
     log |-> r.log \/ later.log]

\* repl (lines 1114-1118) for the k-th match, r being the rendering
\* fn(m.group(1)): its stripped text is appended to magic_vec
GroupRendered(text, ms, k, magic_vec, r) ==
    IF r.err THEN r
    ELSE GroupJoined(text, ms, k, magic_vec, r,
                     ReplaceGroups(text, ms, k + 1,
                                   Append(r.vec, Strip(r.text, Space))))

\* One re.sub(regexp, repl, text) of math_magic (lines 1114-1122) from the
\* k-th match on, with fn = recurse
ReplaceGroups(text, ms, k, magic_vec) ==
    IF k > Len(ms)
    THEN [text |-> SubSeq(text, IF ms = <<>> THEN 1 ELSE ms[Len(ms)].to,
                          Len(text)),
          vec |-> magic_vec, err |-> FALSE, log |-> FALSE]
    ELSE GroupRendered(text, ms, k, magic_vec,
                       recurse(Group(ms[k], 1), magic_vec))

RECURSIVE math_magic(_, _)
\* the end of an iteration of the loop of math_magic, r being the result of
\* the substitution
MagicAgain(text, r) ==
    IF r.err \/ r.text = text THEN r
    ELSE MergeLog(math_magic(r.text, r.vec), r.log)

\* math_magic (lines 1104-1125) with left = "{", right = "}", fn = recurse
math_magic(text, magic_vec) ==
    MagicAgain(text, ReplaceGroups(text, FindAll(BraceRe, text), 1, magic_vec))

RECURSIVE BraceLoop(_, _)
\* the end of an iteration of the first loop of recurse
BraceAgain(text, r) ==
    IF r.err \/ r.text = text THEN r
    ELSE MergeLog(BraceLoop(r.text, r.vec), r.log)

\* the first loop of recurse (lines 1203-1207)
BraceLoop(text, magic_vec) == BraceAgain(text, math_magic(text, magic_vec))

\* lines 1232-1239: a space is put before a v that starts with a digit
\* when the last part ends in a letter or a digit
Spaced(parts, v) ==
    LET prev == parts[Len(parts)][Len(parts[Len(parts)])]
    IN IF parts # <<>> /\ v[1] \in Digits
          /\ (IsAlpha(prev) \/ prev \in Digits)
       THEN <<" ">> \o v ELSE v

RECURSIVE TokenLoop(_, _, _, _)
\* lines 1231-1240 for the k-th match, e being the result of expand_group
TokenExpanded(ms, k, parts, magic_vec, e) ==
    IF e.err
    THEN [text |-> <<>>, vec |-> magic_vec, err |-> TRUE, log |-> FALSE]
    ELSE MergeLog(TokenLoop(ms, k + 1,
                            IF e.text = <<>> THEN parts
                            ELSE Append(parts, Spaced(parts, e.text)),
                            magic_vec),
                  e.log)

\* lines 1228-1231 for the k-th match, v0 being m.group(0).strip()
TokenStripped(ms, k, parts, magic_vec, v0) ==
    IF v0 = <<>> THEN TokenLoop(ms, k + 1, parts, magic_vec)
    ELSE TokenExpanded(ms, k, parts, magic_vec, expand_group(v0, magic_vec))

\* the finditer loop of recurse (lines 1208-1240) from the k-th match on
TokenLoop(ms, k, parts, magic_vec) ==
    IF k > Len(ms)
    THEN [text |-> Flatten(parts), vec |-> magic_vec, err |-> FALSE,
          log |-> FALSE]
    ELSE TokenStripped(ms, k, parts, magic_vec, Strip(Group0(ms[k]), Space))

\* the second loop of recurse and its return, b being the result of the
\* first loop
Tokenize(b) ==
    IF b.err THEN b
    ELSE MergeLog(TokenLoop(FindAll(TokenRe, b.text), 1, <<>>, b.vec), b.log)

\* recurse (lines 1103-1244)
recurse(text, magic_vec) == Tokenize(BraceLoop(text, magic_vec))

\* to_math (lines 1083-1248)
to_math(text) == recurse(text, <<>>)


(***************************************************************************)
(* Namespace configurations: the part of wxr.wtp.NAMESPACE_DATA that       *)
(* clean_value reads (lines 1353-1355 and 1516-1521): the prefixes of the  *)
(* File namespace and the name and aliases of the Category namespace.      *)
(***************************************************************************)
EnglishConfig ==
    [file_prefixes |-> <<<<"F", "i", "l", "e">>, <<"I", "m", "a", "g", "e">>>>,
     category_name |-> <<"C", "a", "t", "e", "g", "o", "r", "y">>,
     category_aliases |-> <<<<"C", "A", "T">>>>]

GermanConfig ==
    [file_prefixes |-> <<<<"D", "a", "t", "e", "i">>, <<"B", "i", "l", "d">>>>,
     category_name |-> <<"K", "a", "t", "e", "g", "o", "r", "i", "e">>,
     category_aliases |-> <<<<"K", "A", "T">>>>]

(***************************************************************************)
(* Specification of the script converters: every string over              *)
(* ScriptAlphabet of length at most MaxScriptLen is passed to each of the  *)
(* three functions.                                                        *)
(***************************************************************************)
MaxScriptLen == 3

\* mapped in both tables ("1", "2"), only in the superscript table ("H",
\* "O"), only in the subscript table (U+03C1, rho), in neither ("q",
\* U+03A3, Sigma); U+00B2 (superscript two) is a digit for str.isdigit()
\* that neither table maps
ScriptAlphabet == {"1", "2", "3", "H", "O", "U+03C1", "q", "U+03A3", "U+00B2"}

\* the variables of clean_value in a process that has not called it
\* no call of remove_italic_and_bold is taken step by step
NoEmphasisCall ==
    /\ local_lines = <<>>
    /\ local_line = 0
    /\ local_parts = <<>>
    /\ local_i = 0
    /\ local_state = 0
    /\ new_text_parts = <<>>

NoTarCall ==
    /\ local_pages = <<>>
    /\ tarf = <<>>

NoMathCall ==
    /\ local_text = <<>>
    /\ local_orig = <<>>
    /\ local_magic_vec = <<>>
    /\ local_matches = <<>>
    /\ local_magics = <<>>

NoCleanCall ==
    /\ local_title = <<>>
    /\ local_prev = <<>>
    /\ passes = 0
    /\ IMAGE_LINK_RE = <<>>
    /\ config = EnglishConfig
    /\ calls = 0
    /\ steps = 0

ScriptInit ==
    /\ fn = "none"
    /\ arg \in StringsUpTo(ScriptAlphabet, MaxScriptLen)
    /\ ret = <<>>
    /\ raised = FALSE
    /\ pc = "call"
    /\ NoCleanCall
    /\ NoEmphasisCall
    /\ NoMathCall
    /\ NoTarCall

CallSuperscript ==
    /\ pc = "call"
    /\ fn' = "to_superscript"
    /\ ret' = to_superscript(arg)
    /\ pc' = "returned"
    /\ UNCHANGED <<tarVars, mathVars, emphasisVars, arg, raised, cleanVars>>

CallSubscript ==
    /\ pc = "call"
    /\ fn' = "to_subscript"
    /\ ret' = to_subscript(arg)
    /\ pc' = "returned"
    /\ UNCHANGED <<tarVars, mathVars, emphasisVars, arg, raised, cleanVars>>

CallChem ==
    /\ pc = "call"
    /\ fn' = "to_chem"
    /\ ret' = to_chem(arg)
    /\ pc' = "returned"
    /\ UNCHANGED <<tarVars, mathVars, emphasisVars, arg, raised, cleanVars>>

ScriptNext == CallSuperscript \/ CallSubscript \/ CallChem

ScriptSpec == ScriptInit /\ [][ScriptNext]_vars

Returned(f) == fn = f /\ pc = "returned"

\* The three-way rule of a converter with table ht and marker mark, stated
\* position by position on the returned string
ThreeWayRule(ht, mark) ==
    /\ AllIn(arg, ht) =>
          /\ Len(ret) = Len(Flatten([i \in 1..Len(arg) |-> ht[arg[i]]]))
          /\ \A i \in 1..Len(arg) :
                \E k \in 1..Len(ret) :
                    SubSeq(ret, k, k + Len(ht[arg[i]]) - 1) = ht[arg[i]]
          /\ ret = Flatten([i \in 1..Len(arg) |-> ht[arg[i]]])
    /\ (~AllIn(arg, ht) /\ Len(arg) = 1) => ret = <<mark, arg[1]>>
    /\ (~AllIn(arg, ht) /\ Len(arg) > 1) =>
          /\ Len(ret) = Len(arg) + 3
          /\ ret[1] = mark /\ ret[2] = "(" /\ ret[Len(ret)] = ")"
          /\ SubSeq(ret, 3, Len(ret) - 1) = arg

\* C7: to_superscript and to_subscript map character by character when
\* every character of the argument has a table entry, return the marker
\* ("^" resp. "_") followed by the argument when the argument is a single
\* unmapped character, and otherwise return the marker followed by the
\* whole unchanged argument in parentheses.
C7_ThreeWayRule ==
    /\ Returned("to_superscript") => ThreeWayRule(superscript_ht, "^")
    /\ Returned("to_subscript") => ThreeWayRule(subscript_ht, "_")

C7_Witness ==
    /\ Returned("to_superscript")
    /\ arg = <<"1", "2", "3">>
    /\ ret = <<"U+00B9", "U+00B2", "U+00B3">>

\* C8 as stated: to_superscript of the single unmapped character Sigma is
\* the parenthesised fallback "^(" Sigma ")".
C8_SigmaParenthesised ==
    (Returned("to_superscript") /\ arg = <<"U+03A3">>)
        => ret = <<"^", "(", "U+03A3", ")">>

\* C8 amended: to_superscript of the single unmapped character Sigma is
\* the single-character fallback "^" Sigma, without parentheses.
C8_SigmaCaret ==
    (Returned("to_superscript") /\ arg = <<"U+03A3">>)
        => ret = <<"^", "U+03A3">>

C8_Witness ==
    /\ Returned("to_superscript")
    /\ arg = <<"U+03A3">>
    /\ Len(ret) = 2

RECURSIVE ChemRule(_)
\* the expected to_chem output, built from the left: a digit contributes
\* to_subscript of itself alone, any other character itself
ChemRule(s) ==
    IF s = <<>> THEN <<>>
    ELSE (IF IsDigit(Head(s)) THEN to_subscript(<<Head(s)>>) ELSE <<Head(s)>>)
            \o ChemRule(Tail(s))

\* C9: to_chem passes every non-digit character through unchanged and in
\* place and replaces each digit by to_subscript of that digit alone, so
\* to_chem("H2O") is H, subscript two, O and the digits of a multi-digit
\* number are subscripted one by one.
C9_ChemDigits ==
    Returned("to_chem") =>
        /\ ret = ChemRule(arg)
        /\ (\A i \in 1..Len(arg) : ~IsDigit(arg[i])) => ret = arg
        /\ arg = <<"H", "2", "O">> => ret = <<"H", "U+2082", "O">>
        /\ arg = <<"1", "2">> => ret = <<"U+2081", "U+2082">>

C9_Witness ==
    /\ Returned("to_chem")
    /\ arg = <<"H", "2", "O">>
    /\ ret = <<"H", "U+2082", "O">>

(***************************************************************************)
(* Specification of to_math: it is called once, on a short string over     *)
(* MathAlphabet (braces, a digit, the superscript marker and the           *)
(* first magic character) or on \frac followed by two brace groups whose   *)
(* contents are strings over ArgAlphabet and DenAlphabet.                  *)
(***************************************************************************)
MaxMathLen == 3

MathAlphabet == {"{", "}", "1", "^", Magic(0)}

MaxArgLen == 2

ArgAlphabet == {"1", "^", " "}

DenAlphabet == {"2", "^"}

\* the non-empty contents of the first and of the second brace group
FracArgs == StringsUpTo(ArgAlphabet, MaxArgLen) \ {<<>>}

DenArgs == StringsUpTo(DenAlphabet, MaxArgLen) \ {<<>>}

\* \frac{a}{b}
FracInput(a, b) ==
    <<"\\", "f", "r", "a", "c", "{">> \o a \o <<"}", "{">> \o b \o <<"}">>

\* the degrees and the radicands of the roots that are rendered
SqrtDegrees == {<<"2">>, <<"3">>, <<"4">>, <<"5">>}

Radicands == {<<"x">>, <<"1">>}

\* \sqrt[n]{x}
SqrtInput(n, x) ==
    <<"\\", "s", "q", "r", "t", "[">> \o n \o <<"]", "{">> \o x \o <<"}">>

\* the identifiers, the markers and the digits of the scripts that are
\* rendered
ScriptLetters == {"x", "a"}

ScriptMarks == {"^", "_"}

ScriptDigits == {"1", "2"}

\* the contents of the brace groups of the binomials that are rendered
BinomArgs == {<<"n">>, <<"n", "k">>}

\* \binom{a}{b}
BinomInput(a, b) ==
    <<"\\", "b", "i", "n", "o", "m", "{">> \o a \o <<"}", "{">> \o b
        \o <<"}">>

\* second arguments of \frac that the tokenizer takes as one unit (lines
\* 1211-1214) and the pattern of expand_group does not (lines 1158-1162)
CompoundUnits ==
    {<<"\\", "n", "o", "t", "\\", "i", "n">>,
     <<"\\", "d", "o", "t", "\\", "c", "u", "p">>}

\* \frac{a}u for a unit u
FracUnitInput(a, u) ==
    <<"\\", "f", "r", "a", "c", "{">> \o a \o <<"}">> \o u

MathInputs ==
    StringsUpTo(MathAlphabet, MaxMathLen)
        \cup {FracInput(a, b) : a \in FracArgs, b \in DenArgs}
        \cup {SqrtInput(n, x) : n \in SqrtDegrees, x \in Radicands}
        \cup {<<c, mark, d>> :
                 c \in ScriptLetters, mark \in ScriptMarks, d \in ScriptDigits}
        \cup {BinomInput(a, b) : a \in BinomArgs, b \in BinomArgs}
        \cup {FracUnitInput(a, u) : a \in BinomArgs, u \in CompoundUnits}

MathInit ==
    /\ fn = "none"
    /\ arg \in MathInputs
    /\ ret = <<>>
    /\ raised = FALSE
    /\ pc = "call"
    /\ NoCleanCall
    /\ NoEmphasisCall
    /\ NoMathCall
    /\ NoTarCall

CallToMath ==
    /\ pc = "call"
    /\ fn' = "to_math"
    /\ LET r == to_math(arg)
       IN /\ raised' = r.err
          /\ ret' = IF r.err THEN <<>> ELSE r.text
          /\ pc' = IF r.err THEN "raised" ELSE "returned"
    /\ UNCHANGED <<tarVars, mathVars, emphasisVars, arg, cleanVars>>

MathNext == CallToMath

MathSpec == MathInit /\ [][MathNext]_vars

\* C1: the engine never raises to its caller; for every input string, with
\* no restriction on its characters, a call of to_math ends by returning a
\* string and not in an exception.
C1_NeverRaises == fn = "to_math" => (pc = "returned" /\ ~raised)

\* the position of the first "}" of s
FirstClose(s) ==
    CHOOSE i \in 1..Len(s) : s[i] = "}" /\ \A j \in 1..(i - 1) : s[j] # "}"

\* the contents of the two brace groups of an input \frac{a}{b}
FracA(s) == SubSeq(s, 7, FirstClose(s) - 1)

FracB(s) == SubSeq(s, FirstClose(s) + 2, Len(s) - 1)

IsFracInput(s) ==
    /\ StartsWith(s, <<"\\", "f", "r", "a", "c", "{">>)
    /\ FracA(s) \in FracArgs
    /\ FracB(s) \in DenArgs
    /\ s = FracInput(FracA(s), FracB(s))

\* the rendering of a brace group: what to_math makes of its contents,
\* without the surrounding white space
Rendering(a) == Strip(to_math(a).text, Space)

\* a side of a fraction: in parentheses exactly when longer than one
\* character
Side(r) == IF Len(r) <= 1 THEN r ELSE <<"(">> \o r \o <<")">>

\* C10: to_math renders \frac{a}{b} as A/B, where A and B are the
\* renderings of the two brace groups, each in parentheses exactly when
\* that rendering is longer than one character; to_math of \frac{1}{2} is
\* 1/2.
C10_FracRendering ==
    (Returned("to_math") /\ IsFracInput(arg)) =>
        /\ ret = Side(Rendering(FracA(arg))) \o <<"/">>
                    \o Side(Rendering(FracB(arg)))
        /\ arg = FracInput(<<"1">>, <<"2">>) => ret = <<"1", "/", "2">>

C10_Witness ==
    /\ Returned("to_math")
    /\ arg = FracInput(<<"1", "1">>, <<"^", "2">>)
    /\ ret = <<"(", "1", "1", ")", "/", "U+00B2">>

\* the degree and the radicand of an input \sqrt[n]{x}
SqrtN(s) == SubSeq(s, 7, 7)

SqrtX(s) == SubSeq(s, 10, Len(s) - 1)

IsSqrtInput(s) ==
    /\ Len(s) >= 11
    /\ SqrtN(s) \in SqrtDegrees
    /\ SqrtX(s) \in Radicands
    /\ s = SqrtInput(SqrtN(s), SqrtX(s))

\* the root glyph of degree n
RootGlyph(n) ==
    CASE n = <<"2">> -> <<"U+221A">>
      [] n = <<"3">> -> <<"U+221B">>
      [] n = <<"4">> -> <<"U+221C">>
      [] OTHER -> to_superscript(n) \o <<"U+221A">>

\* C11: to_math renders \sqrt[n]{X} as the root glyph of degree n (the
\* square, cube and fourth root signs for 2, 3 and 4, the superscript of n
\* before the square root sign otherwise) followed by the rendering of X;
\* to_math of \sqrt[3]{x} is the cube root sign and x.
C11_RootRendering ==
    (Returned("to_math") /\ IsSqrtInput(arg)) =>
        /\ ret = RootGlyph(SqrtN(arg)) \o Rendering(SqrtX(arg))
        /\ arg = SqrtInput(<<"3">>, <<"x">>) => ret = <<"U+221B", "x">>

\* C12: a marker ^ or _ that directly follows an identifier renders what
\* follows it through to_superscript or to_subscript: for a letter c and a
\* digit d, to_math of c^d is c and the superscript of d, to_math of c_d
\* is c and the subscript of d; to_math of x^2 is x and superscript two.
C12_ScriptAfterIdentifier ==
    (Returned("to_math") /\ Len(arg) = 3 /\ arg[1] \in ScriptLetters
        /\ arg[2] \in ScriptMarks /\ arg[3] \in ScriptDigits) =>
        /\ arg[2] = "^" => ret = <<arg[1]>> \o to_superscript(<<arg[3]>>)
        /\ arg[2] = "_" => ret = <<arg[1]>> \o to_subscript(<<arg[3]>>)
        /\ arg = <<"x", "^", "2">> => ret = <<"x", "U+00B2">>

\* s holds a character of the magic range
HasMagic(s) ==
    \E j \in 1..Len(s) : \E n \in 1..Len(MagicChars) : s[j] = MagicChars[n]

\* C23: for an input without characters of the magic range, the string
\* that to_math returns holds no magic character: every placeholder of a
\* brace group has been replaced by its rendering, also when the shape of
\* the arguments of \frac or \binom is not recognised.
C23_NoMagicReturned ==
    (Returned("to_math") /\ ~HasMagic(arg)) => ~HasMagic(ret)

\* the contents of the two brace groups of an input \binom{a}{b}
BinomA(s) == SubSeq(s, 8, FirstClose(s) - 1)

BinomB(s) == SubSeq(s, FirstClose(s) + 2, Len(s) - 1)

IsBinomInput(s) ==
    /\ StartsWith(s, <<"\\", "b", "i", "n", "o", "m", "{">>)
    /\ BinomA(s) \in BinomArgs
    /\ BinomB(s) \in BinomArgs
    /\ s = BinomInput(BinomA(s), BinomB(s))

\* C24: to_math renders \binom{a}{b} as binom(A, B), A and B being the
\* renderings of the two brace groups, each in parentheses when it is
\* longer than one character; the output holds no backslash.
C24_BinomRendering ==
    (Returned("to_math") /\ IsBinomInput(arg)) =>
        /\ ret = <<"b", "i", "n", "o", "m", "(">>
                    \o Side(Rendering(BinomA(arg))) \o <<",", " ">>
                    \o Side(Rendering(BinomB(arg))) \o <<")">>
        /\ \A j \in 1..Len(ret) : ret[j] # "\\"

(***************************************************************************)
(* Specification of one call of to_math taken step by step through the     *)
(* brace loop of the outermost recurse (lines 1203-1207): one step for     *)
(* every call of repl (lines 1114-1118), for the start and the end of      *)
(* every re.sub of math_magic (lines 1120-1124), and one for the loop over *)
(* the tokens (lines 1208-1243).  The input is a text of at most           *)
(* MaxBraceWords lexemes, without characters of the magic range.           *)
(***************************************************************************)
MaxBraceWords == 3

BraceLexemes ==
    {<<"{">>, <<"}">>, <<"{", "a", "}">>,
     FracUnitInput(<<"a">>, <<"\\", "n", "o", "t", "\\", "i", "n">>)}

BraceInputs == WordsUpTo(BraceLexemes, MaxBraceWords)

BraceInit ==
    /\ fn = "none"
    /\ arg \in BraceInputs
    /\ ret = <<>>
    /\ raised = FALSE
    /\ pc = "call"
    /\ NoCleanCall
    /\ NoEmphasisCall
    /\ NoMathCall
    /\ NoTarCall

\* lines 1087 and 1245: magic_vec = [] and the call recurse(text)
CallRecurse ==
    /\ pc = "call"
    /\ fn' = "to_math"
    /\ local_text' = arg
    /\ local_magic_vec' = <<>>
    /\ pc' = "brace"
    /\ UNCHANGED <<tarVars, arg, ret, raised, cleanVars, emphasisVars,
                   local_orig, local_matches, local_magics>>

\* lines 1204-1205: an iteration of the brace loop begins and calls
\* math_magic
BraceIteration ==
    /\ pc = "brace"
    /\ local_orig' = local_text
    /\ pc' = "magic"
    /\ UNCHANGED <<tarVars, fn, arg, ret, raised, cleanVars, emphasisVars,
                   local_text, local_magic_vec, local_matches, local_magics>>

\* lines 1120-1122: an iteration of the loop of math_magic begins, re.sub
\* finds the brace groups without braces inside
MagicIteration ==
    /\ pc = "magic"
    /\ local_matches' = FindAll(BraceRe, local_text)
    /\ local_magics' = <<>>
    /\ pc' = "repl"
    /\ UNCHANGED <<tarVars, fn, arg, ret, raised, cleanVars, emphasisVars,
                   local_text, local_orig, local_magic_vec>>

\* lines 1116-1118 of repl, r being the result of fn(m.group(1)): its
\* stripped text is appended to magic_vec and magic is returned
ReplReturn(magic, r) ==
    IF r.err
    THEN /\ raised' = TRUE
         /\ pc' = "raised"
         /\ UNCHANGED <<local_magics, local_magic_vec>>
    ELSE /\ local_magic_vec' = Append(r.vec, Strip(r.text, Space))
         /\ local_magics' = Append(local_magics, <<magic>>)
         /\ UNCHANGED <<raised, pc>>

\* lines 1114-1118: repl for the next match of the re.sub
Repl ==
    /\ pc = "repl"
    /\ Len(local_magics) < Len(local_matches)
    /\ ReplReturn(NextMagic(local_magic_vec),
                  recurse(Group(local_matches[Len(local_magics) + 1], 1),
                          local_magic_vec))
    /\ UNCHANGED <<tarVars, fn, arg, ret, cleanVars, emphasisVars, local_text,
                   local_orig, local_matches>>

\* the text of s with the k-th match of ms replaced by outs[k]
Substituted(s, ms, outs) ==
    JoinMap(LAMBDA k :
                SubSeq(s, IF k = 1 THEN 1 ELSE ms[k - 1].to, ms[k].from - 1)
                    \o outs[k],
            1, Len(ms))
        \o SubSeq(s, IF ms = <<>> THEN 1 ELSE ms[Len(ms)].to, Len(s))

\* lines 1121-1123: the re.sub has replaced its matches and the text has
\* changed, the loop of math_magic goes on
SubEnd ==
    /\ pc = "repl"
    /\ Len(local_magics) = Len(local_matches)
    /\ local_matches # <<>>
    /\ local_text' = Substituted(local_text, local_matches, local_magics)
    /\ pc' = "magic"
    /\ UNCHANGED <<tarVars, fn, arg, ret, raised, cleanVars, emphasisVars,
                   local_orig, local_magic_vec, local_matches, local_magics>>

\* lines 1123-1125 and 1206-1207: the re.sub found nothing, math_magic
\* returns, and the brace loop ends when its iteration changed nothing
MagicReturn ==
    /\ pc = "repl"
    /\ local_matches = <<>>
    /\ pc' = IF local_text = local_orig THEN "tokens" ELSE "brace"
    /\ UNCHANGED <<tarVars, fn, arg, ret, raised, cleanVars, emphasisVars,
                   mathVars>>

\* lines 1242-1248: recurse and to_math return, r being the result of the
\* loop over the tokens
RecurseReturn(r) ==
    /\ raised' = r.err
    /\ ret' = IF r.err THEN <<>> ELSE r.text
    /\ pc' = IF r.err THEN "raised" ELSE "returned"

\* lines 1208-1248: the loop over the tokens and the return
Tokens ==
    /\ pc = "tokens"
    /\ RecurseReturn(TokenLoop(FindAll(TokenRe, local_text), 1, <<>>,
                               local_magic_vec))
    /\ UNCHANGED <<tarVars, fn, arg, cleanVars, emphasisVars, mathVars>>

BraceNext ==
    \/ CallRecurse
    \/ BraceIteration
    \/ MagicIteration
    \/ Repl
    \/ SubEnd
    \/ MagicReturn
    \/ Tokens

BraceSpec == BraceInit /\ [][BraceNext]_vars

\* the step by step call returns what to_math returns
BraceStepsAgree ==
    Returned("to_math") =>
        /\ ret = to_math(arg).text
        /\ local_magic_vec = to_math(arg).vec

\* s begins with p
IsPrefix(p, s) == Len(p) <= Len(s) /\ SubSeq(s, 1, Len(p)) = p

\* the indices of the magic characters of s
MagicIndices(s) ==
    {MagicIndex(s[j]) : j \in {i \in 1..Len(s) : HasMagic(<<s[i]>>)}}

\* the step replaces a brace group: repl has returned for one more match
Replaces ==
    /\ pc = "repl"
    /\ Len(local_magics') = Len(local_magics) + 1

\* C22: within one call of to_math on an input without magic characters
\* the table magic_vec only grows at its end, by one entry for every brace
\* group replaced; the group replaced when the table has k entries is
\* replaced by the character MAGIC_FIRST + k and its rendering becomes
\* entry k, so no magic character is given out twice; every magic
\* character in the text or in the table has its entry, and entry k holds
\* only magic characters of indices below k.
C22_MagicTable ==
    /\ [][/\ IsPrefix(local_magic_vec, local_magic_vec')
          /\ Len(local_magic_vec') > Len(local_magic_vec) => Replaces
          /\ Replaces =>
                /\ Len(local_magic_vec') = Len(local_magic_vec) + 1
                /\ local_magics'[Len(local_magics')]
                       = <<Magic(Len(local_magic_vec))>>]_vars
    /\ [](\A n \in MagicIndices(local_text) : n < Len(local_magic_vec))
    /\ [](\A k \in 1..Len(local_magic_vec) :
             \A n \in MagicIndices(local_magic_vec[k]) : n < k - 1)

C22_Witness ==
    /\ arg = <<"{", "{", "a", "}", "}">>
    /\ pc = "returned"
    /\ local_magic_vec = <<<<"a">>, <<"a">>>>
    /\ local_text = <<Magic(1)>>
    /\ ret = <<"a">>

(***************************************************************************)
(* Specification of one call of clean_value, taken loop iteration by loop  *)
(* iteration: pc is the position in the function body, local_title and     *)
(* local_prev are its locals title and prev, passes counts the executions  *)
(* of the table loop's body.                                               *)
(***************************************************************************)
MaxTableWords == 4
MaxEmphasisWords == 4
MaxLabels == 2
MaxSpaceWords == 3
MaxUrlTokens == 3

TableLexemes == {<<"{", "|">>, <<"|", "}">>, <<"a">>}
EmphasisLexemes == {<<"'", "'">>, <<"a">>}

Targets == {<<"a">>, <<"f", "o", "o">>}
Labels == {<<"b">>, <<"b", "a", "r">>, <<"c", " ", "d">>,
           <<"'", "'", "e", "'", "'">>}
LabelSeqs == UNION {[1..n -> Labels] : n \in 1..MaxLabels}

\* [[T|L1|...|Ln]]
PipedLink(t, ls) ==
    <<"[", "[">> \o t \o JoinMap(LAMBDA j : <<"|">> \o ls[j], 1, Len(ls))
    \o <<"]", "]">>

CategoryNames == {<<"C", "a", "t", "e", "g", "o", "r", "y">>,
                  <<"c", "a", "t", "e", "g", "o", "r", "y">>,
                  <<"K", "a", "t", "e", "g", "o", "r", "i", "e">>,
                  <<"K", "A", "T">>, <<"k", "a", "t">>}
CategoryTitles == {<<"F", "o", "o">>, <<"F", "|", "o">>, <<" ", "x", " ">>}
Before == {<<>>, <<"a", " ">>}
After == {<<>>, <<" ", "b">>}

\* pre [[N:X]] post
CategoryLink(pre, n, x, post) ==
    pre \o <<"[", "[">> \o n \o <<":">> \o x \o <<"]", "]">> \o post

\* namespace prefixes of links: Wikipedia, Wikisource and another one
LinkPrefixes == {<<"w">>, <<"s">>, <<"x">>}

\* no label, or one label
OptionalLabels == {<<>>, <<<<"b">>>>, <<<<"b", "a", "r">>>>}

\* [[p:T]] or [[p:T|L]]
PrefixedLink(p, t, ls) == PipedLink(p \o <<":">> \o t, ls)

\* parameters of an image link: two of the markers of an image that is
\* not inline, and an alt text
ImageParams ==
    {<<"t", "h", "u", "m", "b">>, <<"l", "e", "f", "t">>,
     <<"a", "l", "t", "=", "b">>}

ImageParamSeqs == UNION {[1..n -> ImageParams] : n \in 0..MaxLabels}

\* [[prefix:x|P1|...|Pn]]
ImageLink(prefix, ps) == PipedLink(prefix \o <<":", "x">>, ps)

\* a letter, the white space and the marks that lines 1568-1574 rewrite, the
\* en quad, and a blank line of one space
SpaceLexemes ==
    {<<"a">>, <<" ">>, <<"\n">>, <<"\t">>, <<"U+00A0">>, <<"U+2000">>,
     <<"U+200B">>, <<"\n", " ", "\n">>}

UrlInputs ==
    {<<"[", "h", "t", "t", "p", ":", "/", "/", "x", "]">>,
     <<"[", "h", "t", "t", "p", ":", "/", "/", "x", " ", "y", " ", "z", "]">>,
     <<"[", "/", "/", "x", " ", "[", "/", "/", "y", " ", "z", "]", "]">>}

\* tokens that begin with a URL scheme, and a word
SchemeTokens ==
    {<<"h", "t", "t", "p", ":", "/", "/", "x">>, <<"/", "/", "y">>,
     <<"m", "a", "i", "l", "t", "o", ":", "a">>}
UrlTokens == SchemeTokens \cup {<<"z">>}

\* the token lists of a bracketed link whose first token is a URL that the
\* pattern of the URL loop recognises
UrlTokenSeqs ==
    {ts \in UNION {[1..n -> UrlTokens] : n \in 1..MaxUrlTokens} :
        ts[1] \in SchemeTokens \ {<<"m", "a", "i", "l", "t", "o", ":", "a">>}}

\* [t1 t2 ... tn]
BracketedUrl(ts) == <<"[">> \o JoinWith(ts, <<" ">>) \o <<"]">>

CleanInputs ==
    WordsUpTo(TableLexemes, MaxTableWords)
    \cup WordsUpTo(EmphasisLexemes, MaxEmphasisWords)
    \cup {PipedLink(t, ls) : t \in Targets, ls \in LabelSeqs}
    \cup {CategoryLink(pre, n, x, post) :
            pre \in Before, n \in CategoryNames,
            x \in CategoryTitles, post \in After}
    \cup UrlInputs
    \cup {PrefixedLink(p, t, ls) :
            p \in LinkPrefixes, t \in Targets, ls \in OptionalLabels}
    \cup WordsUpTo(SpaceLexemes, MaxSpaceWords)
    \cup {ImageLink(GermanConfig.file_prefixes[j], ps) :
            j \in 1..Len(GermanConfig.file_prefixes), ps \in ImageParamSeqs}
    \cup {BracketedUrl(ts) : ts \in UrlTokenSeqs}

CleanInit ==
    /\ fn = "none"
    /\ arg \in CleanInputs
    /\ ret = <<>>
    /\ raised = FALSE
    /\ pc = "call"
    /\ local_title = <<>>
    /\ local_prev = <<>>
    /\ passes = 0
    /\ IMAGE_LINK_RE = <<>>
    /\ config = GermanConfig
    /\ calls = 0
    /\ steps = 0
    /\ NoEmphasisCall
    /\ NoMathCall
    /\ NoTarCall

\* entry of clean_value up to the table loop: the image pattern is compiled
\* when the global is still None, prev = ""
Enter ==
    /\ pc = "call"
    /\ fn' = "clean_value"
    /\ IMAGE_LINK_RE' = IF IMAGE_LINK_RE = <<>>
                          THEN CompileImageLinkRe(config.file_prefixes)
                          ELSE IMAGE_LINK_RE
    /\ local_title' = arg
    /\ local_prev' = <<>>
    /\ calls' = calls + 1
    /\ pc' = "tables"
    /\ steps' = steps + 1
    /\ UNCHANGED <<tarVars, mathVars, emphasisVars, arg, ret, raised, passes,
                   config>>

\* while title != prev: prev = title; title = re.sub(table, "\n", title)
TableIteration ==
    /\ pc = "tables"
    /\ local_title # local_prev
    /\ local_prev' = local_title
    /\ local_title' = TablePass(local_title)
    /\ passes' = passes + 1
    /\ steps' = steps + 1
    /\ UNCHANGED <<tarVars, mathVars, emphasisVars, fn, arg, ret, raised, pc,
                   IMAGE_LINK_RE, config, calls>>

\* the table loop's condition fails; the HTML steps up to the link loop
TableExit ==
    /\ pc = "tables"
    /\ local_title = local_prev
    /\ local_title' = HtmlSteps(local_title)
    /\ pc' = "links"
    /\ steps' = steps + 1
    /\ UNCHANGED <<tarVars, mathVars, emphasisVars, fn, arg, ret, raised,
                   local_prev, passes, IMAGE_LINK_RE, config, calls>>

\* while True: orig = title; the four link substitutions; break if unchanged
LinkIteration ==
    /\ pc = "links"
    /\ LET t == LinkPass(config, IMAGE_LINK_RE, local_title)
       IN /\ local_title' = t
          /\ pc' = IF t = local_title THEN "urls" ELSE "links"
    /\ steps' = steps + 1
    /\ UNCHANGED <<tarVars, mathVars, emphasisVars, fn, arg, ret, raised,
                   local_prev, passes, IMAGE_LINK_RE, config, calls>>

\* while True: orig = title; the external-link substitution; break if unchanged
UrlIteration ==
    /\ pc = "urls"
    /\ LET t == UrlPass(local_title)
       IN /\ local_title' = t
          /\ pc' = IF t = local_title THEN "finish" ELSE "urls"
    /\ steps' = steps + 1
    /\ UNCHANGED <<tarVars, mathVars, emphasisVars, fn, arg, ret, raised,
                   local_prev, passes, IMAGE_LINK_RE, config, calls>>

\* the steps after the loops, and the return
Return ==
    /\ pc = "finish"
    /\ ret' = Finish(local_title, FALSE)
    /\ pc' = "returned"
    /\ steps' = steps + 1
    /\ UNCHANGED <<tarVars, mathVars, emphasisVars, fn, arg, raised,
                   local_title, local_prev, passes, IMAGE_LINK_RE, config,
                   calls>>

CleanNext ==
    \/ Enter
    \/ TableIteration
    \/ TableExit
    \/ LinkIteration
    \/ UrlIteration
    \/ Return

CleanSpec == CleanInit /\ [][CleanNext]_vars

\* Every step of CleanNext advances steps, and a step is possible at every
\* position but "returned".  The call is one thread of control that the
\* interpreter keeps executing: while it has not returned it takes a step.
Advance == pc # "returned" /\ steps' = steps + 1

CleanFairSpec == CleanSpec /\ WF_steps(Advance)

Max(a, b) == IF a >= b THEN a ELSE b

\* nesting depth of the complete tables of s: open holds, innermost last,
\* the depth reached so far inside each table opened and not yet closed
RECURSIVE DepthScan(_, _, _, _)
DepthScan(s, i, open, best) ==
    IF i > Len(s) THEN best
    ELSE IF i < Len(s) /\ s[i] = "{" /\ s[i + 1] = "|"
    THEN DepthScan(s, i + 2, Append(open, 0), best)
    ELSE IF i < Len(s) /\ s[i] = "|" /\ s[i + 1] = "}"
    THEN IF open = <<>> THEN DepthScan(s, i + 2, open, best)
         ELSE LET h == open[Len(open)] + 1
                  outer == SubSeq(open, 1, Len(open) - 1)
                  raisedOuter ==
                      IF outer = <<>> THEN outer
                      ELSE [outer EXCEPT ![Len(outer)] = Max(@, h)]
              IN DepthScan(s, i + 2, raisedOuter, Max(best, h))
    ELSE DepthScan(s, i + 1, open, best)

TableDepth(s) == DepthScan(s, 1, <<>>, 0)

\* C3: the table loop of clean_value terminates: on an input whose tables
\* nest to depth d its body runs at most d + 1 times, every pass that
\* changes the string makes it strictly shorter, and the call returns.
C3_TableLoopTerminates ==
    /\ [](passes <= TableDepth(arg) + 1)
    /\ [][(pc = "tables" /\ local_title' # local_title)
            => Len(local_title') < Len(local_title)]_vars
    /\ <>(pc = "returned")

C3_Witness ==
    /\ Returned("clean_value")
    /\ arg = <<"{", "|", "{", "|", "|", "}", "|", "}">>
    /\ passes = 3

\* a delimiter d begins at position i of s
DelimiterAt(s, i, d) == i < Len(s) /\ <<s[i], s[i + 1]>> = d

\* the text of a list of frames
RECURSIVE Frames(_)
Frames(stack) ==
    IF stack = <<>> THEN <<>> ELSE Head(stack) \o Frames(Tail(stack))

\* s from position i on with its complete tables removed, by a scan that
\* keeps one frame of text for every table opened and not yet closed, below
\* them the frame of the text outside all tables: a closing delimiter
\* replaces the frame of the table it closes by a newline, the frames of
\* the tables never closed are text
RECURSIVE WithoutTables(_, _, _)
WithoutTables(s, i, stack) ==
    LET n == Len(stack)
        Put(text) == [stack EXCEPT ![n] = @ \o text]
    IN IF i > Len(s) THEN Frames(stack)
       ELSE IF DelimiterAt(s, i, <<"{", "|">>)
       THEN WithoutTables(s, i + 2, Append(stack, <<"{", "|">>))
       ELSE IF DelimiterAt(s, i, <<"|", "}">>)
       THEN IF n = 1 THEN WithoutTables(s, i + 2, Put(<<"|", "}">>))
            ELSE WithoutTables(s, i + 2,
                               [SubSeq(stack, 1, n - 1)
                                   EXCEPT ![n - 1] = @ \o <<"\n">>])
       ELSE WithoutTables(s, i + 1, Put(<<s[i]>>))

\* an opening delimiter of s is followed by a closing delimiter with no
\* delimiter beginning between them
HasCompleteTable(s) ==
    \E i \in 1..Len(s), j \in 1..Len(s) :
        /\ DelimiterAt(s, i, <<"{", "|">>)
        /\ j >= i + 2
        /\ DelimiterAt(s, j, <<"|", "}">>)
        /\ \A k \in (i + 2)..(j - 1) :
              ~DelimiterAt(s, k, <<"{", "|">>)
                  /\ ~DelimiterAt(s, k, <<"|", "}">>)

\* the step leaves the table loop
LeavesTableLoop == pc = "tables" /\ pc' # "tables"

\* C27: the table loop removes every complete table, the tables nested in
\* it included, to any depth: when the loop is left no opening delimiter
\* is followed by a closing delimiter with no delimiter between them, and
\* an opening delimiter that is never closed, or a closing delimiter with
\* nothing to close, is left in the text with the text around it.
C27_TablesRemoved ==
    [][LeavesTableLoop =>
          /\ ~HasCompleteTable(local_title)
          /\ local_title = WithoutTables(arg, 1, <<<<>>>>)]_vars

C27_Witness ==
    /\ arg = <<"{", "|", "{", "|", "a", "|", "}">>
    /\ pc = "links"
    /\ local_title = <<"{", "|", "\n">>

\* s holds the characters of p at consecutive positions
HasPair(s, p) == \E i \in 1..(Len(s) - 1) : <<s[i], s[i + 1]>> = p

\* C28: what clean_value returns is normalised in its white space: it
\* holds no tab, carriage return, en space, no-break space or zero-width
\* or directional mark, no two spaces in a row, no space before a newline
\* and no two newlines in a row, also where the lines between were blank
\* lines of spaces.
C28_WhitespaceNormalised ==
    Returned("clean_value") =>
        /\ \A i \in 1..Len(ret) :
              ret[i] \notin {"\t", "\r", "U+2002", "U+00A0", "U+200E",
                             "U+200F", "U+200B", "U+200D", "U+200C",
                             "U+FEFF"}
        /\ ~HasPair(ret, <<" ", " ">>)
        /\ ~HasPair(ret, <<" ", "\n">>)
        /\ ~HasPair(ret, <<"\n", "\n">>)

\* the tokens of ts from the first one on that does not begin with a URL
\* scheme, or the last token alone when all begin with one
RECURSIVE Remaining(_)
Remaining(ts) ==
    IF Len(ts) > 1 /\ Head(ts) \in SchemeTokens
    THEN Remaining(Tail(ts)) ELSE ts

C4_Idempotent ==
    Returned("clean_value")
        => clean_value(config, IMAGE_LINK_RE, ret, FALSE) = ret

\* C5: a piped link [[T|L1|...|Ln]] whose target is not a file is replaced
\* by the cleaned text of its last group Ln, never by an earlier group or
\* by the target; [[foo|bar]] gives bar.
C5_PipedLinkLastGroup ==
    Returned("clean_value")
        => /\ \A t \in Targets, ls \in LabelSeqs :
                arg = PipedLink(t, ls)
                    => ret = clean_value(config, IMAGE_LINK_RE,
                                         ls[Len(ls)], FALSE)
           /\ arg = PipedLink(<<"f", "o", "o">>, <<<<"b", "a", "r">>>>)
                => ret = <<"b", "a", "r">>

C5_Witness ==
    /\ Returned("clean_value")
    /\ arg = PipedLink(<<"f", "o", "o">>, <<<<"b">>, <<"b", "a", "r">>>>)
    /\ ret = <<"b", "a", "r">>

\* C25: a link whose namespace prefix is w or s is replaced by the linked
\* text before any pipe, without the prefix, whether or not it has a piped
\* label: [[w:foo]] and [[w:foo|bar]] both give foo; a link with another
\* prefix, not a file or category prefix, and without pipe keeps its prefix.
C25_WikiPrefixLink ==
    Returned("clean_value")
        => \A p \in LinkPrefixes, t \in Targets, ls \in OptionalLabels :
               arg = PrefixedLink(p, t, ls)
                   => /\ p \in {<<"w">>, <<"s">>} => ret = t
                      /\ (p = <<"x">> /\ ls = <<>>)
                            => ret = p \o <<":">> \o t

\* C26: a link with a file prefix of the namespace configuration is
\* removed from the text, unless it has an alt= parameter and none of its
\* parameters is right, left, center, thumb or frame: only then it is
\* replaced by [Alt: and the alt text and ]; a link with alt= and one of
\* the markers is removed.
C26_ImageLink ==
    Returned("clean_value")
        => \A j \in 1..Len(config.file_prefixes), ps \in ImageParamSeqs :
               arg = ImageLink(config.file_prefixes[j], ps)
                   => ret = IF /\ \E k \in 1..Len(ps) :
                                     ps[k] = <<"a", "l", "t", "=", "b">>
                               /\ \A k \in 1..Len(ps) :
                                     ps[k] \notin {<<"t", "h", "u", "m", "b">>,
                                                   <<"l", "e", "f", "t">>}
                            THEN <<"[", "A", "l", "t", ":", " ", "b", "]">>
                            ELSE <<>>

\* C6: a category link [[N:X]], N being Category, the configured category
\* name or an alias in any letter case, is removed together with the
\* whitespace before it: the result is the cleaned text around the link,
\* and [[Category:Foo]] alone gives the empty string.
C6_CategoryLinkRemoved ==
    Returned("clean_value")
        => /\ \A pre \in Before, n \in CategoryNames,
                 x \in CategoryTitles, post \in After :
                arg = CategoryLink(pre, n, x, post)
                    => ret = clean_value(config, IMAGE_LINK_RE,
                                         pre \o post, FALSE)
           /\ arg = CategoryLink(<<>>, <<"C", "a", "t", "e", "g", "o", "r", "y">>,
                                 <<"F", "o", "o">>, <<>>)
                => ret = <<>>

C6_Witness ==
    /\ Returned("clean_value")
    /\ arg = CategoryLink(<<"a", " ">>, <<"k", "a", "t">>,
                          <<"F", "o", "o">>, <<" ", "b">>)
    /\ ret = <<"a", " ", "b">>

(***************************************************************************)
(* Specification of a process that calls clean_value several times, with   *)
(* any of two namespace configurations: the module global IMAGE_LINK_RE    *)
(* lives as long as the process, each call is one step.                    *)
(***************************************************************************)
MaxCalls == 3

ProcessConfigs == {EnglishConfig, GermanConfig}

FilePrefixes ==
    {<<"F", "i", "l", "e">>, <<"I", "m", "a", "g", "e">>,
     <<"D", "a", "t", "e", "i">>, <<"B", "i", "l", "d">>}

ProcessTexts ==
    {<<"[", "[">> \o p \o <<":", "a", "]", "]">> : p \in FilePrefixes}
    \cup {<<"[", "[">> \o p \o <<":", "a", "|", "b", "]", "]">> :
            p \in FilePrefixes}
    \cup {<<"a">>, <<"[", "[", "x", "]", "]">>,
          <<"[", "[", "x", "|", "y", "]", "]">>,
          <<"[", "[", "f", "i", "l", "e", ":", "a", "]", "]">>}

ProcessInit ==
    /\ fn = "none"
    /\ arg = <<>>
    /\ ret = <<>>
    /\ raised = FALSE
    /\ pc = "call"
    /\ local_title = <<>>
    /\ local_prev = <<>>
    /\ passes = 0
    /\ IMAGE_LINK_RE = <<>>
    /\ config = EnglishConfig
    /\ calls = 0
    /\ steps = 0
    /\ NoEmphasisCall
    /\ NoMathCall
    /\ NoTarCall

\* clean_value(wxr, text) from entry to return: the pattern is compiled
\* from wxr only when the global is still None, and the global is what the
\* link callbacks match with
Call(wxr, text) ==
    /\ calls < MaxCalls
    /\ fn' = "clean_value"
    /\ arg' = text
    /\ config' = wxr
    /\ IMAGE_LINK_RE' = IF IMAGE_LINK_RE = <<>>
                          THEN CompileImageLinkRe(wxr.file_prefixes)
                          ELSE IMAGE_LINK_RE
    /\ ret' = clean_value(wxr, IMAGE_LINK_RE', text, FALSE)
    /\ pc' = "returned"
    /\ calls' = calls + 1
    /\ UNCHANGED <<tarVars, mathVars, emphasisVars, raised, local_title,
                   local_prev, passes, steps>>

ProcessNext == \E wxr \in ProcessConfigs, text \in ProcessTexts : Call(wxr, text)

ProcessSpec == ProcessInit /\ [][ProcessNext]_vars

\* C2: clean_value is a pure function of its text and namespace
\* configuration: whatever calls were made before, a call returns what the
\* first call of a process returns for that text and configuration, and the
\* File/Image pattern it uses is the one derived from its own configuration.
C2_PureOfConfiguration ==
    Returned("clean_value")
        => /\ IMAGE_LINK_RE = CompileImageLinkRe(config.file_prefixes)
           /\ ret = clean_value(config,
                                CompileImageLinkRe(config.file_prefixes),
                                arg, FALSE)


(***************************************************************************)
(* Specification of one call of remove_italic_and_bold, taken iteration by *)
(* iteration of its two loops: pc is the position in the function body     *)
(* ("line" before the body of the loop over lines, "part" before the body  *)
(* of the loop over the parts of a line); the input is a text of at most   *)
(* MaxMarkupWords lexemes.                                                 *)
(***************************************************************************)
MaxMarkupWords == 4

MarkupLexemes ==
    {<<"a">>, <<"\n">>, Apos2, Apos3, Apos2 \o <<"a">>, Apos3 \o <<"a">>}

MarkupInputs == WordsUpTo(MarkupLexemes, MaxMarkupWords)

EmphasisInit ==
    /\ fn = "none"
    /\ arg \in MarkupInputs
    /\ ret = <<>>
    /\ raised = FALSE
    /\ pc = "call"
    /\ NoCleanCall
    /\ NoEmphasisCall
    /\ NoMathCall
    /\ NoTarCall

\* lines 1266-1268: the text is split into lines and separators
SplitLines ==
    /\ pc = "call"
    /\ fn' = "remove_italic_and_bold"
    /\ local_lines' = SplitKeep(LinesRe, arg)
    /\ local_line' = 1
    /\ new_text_parts' = <<>>
    /\ pc' = "line"
    /\ UNCHANGED <<tarVars, arg, ret, raised, cleanVars, mathVars, local_parts,
                   local_i, local_state>>

\* lines 1269-1271: the next line is split into parts
StartLine ==
    /\ pc = "line"
    /\ local_line <= Len(local_lines)
    /\ local_parts' = SplitKeep(parts_re, local_lines[local_line])
    /\ local_state' = LineStartState(local_state)
    /\ local_i' = 1
    /\ pc' = "part"
    /\ UNCHANGED <<tarVars, fn, arg, ret, raised, cleanVars, mathVars,
                   local_lines, local_line, new_text_parts>>

\* what new_text_parts is after the part old has been rewritten to out:
\* what is left of a marker is appended when it is not empty (line 1320),
\* any other part always (line 1323)
Appended(list, old, out) ==
    IF StartsWith(old, Apos2) /\ out = <<>> THEN list ELSE Append(list, out)

\* lines 1272-1323: one part of the line
NextPart ==
    /\ pc = "part"
    /\ local_i <= Len(local_parts)
    /\ new_text_parts' =
           Appended(new_text_parts, local_parts[local_i],
                    EmphasisStep(local_parts, local_i, local_state).out)
    /\ local_state' = EmphasisStep(local_parts, local_i, local_state).st
    /\ local_i' = local_i + 1
    /\ UNCHANGED <<tarVars, fn, arg, ret, raised, pc, cleanVars, mathVars,
                   local_lines, local_line, local_parts>>

\* line 1324: the end of the line
EndLine ==
    /\ pc = "part"
    /\ local_i > Len(local_parts)
    /\ new_text_parts' = Append(new_text_parts, <<"\n">>)
    /\ local_line' = local_line + 1
    /\ pc' = "line"
    /\ UNCHANGED <<tarVars, fn, arg, ret, raised, cleanVars, mathVars,
                   local_lines, local_parts, local_i, local_state>>

\* lines 1325-1326
EmphasisReturn ==
    /\ pc = "line"
    /\ local_line > Len(local_lines)
    /\ ret' = Flatten(DropLast(new_text_parts))
    /\ pc' = "returned"
    /\ UNCHANGED <<tarVars, fn, arg, raised, cleanVars, mathVars, emphasisVars>>

EmphasisNext ==
    \/ SplitLines
    \/ StartLine
    \/ NextPart
    \/ EndLine
    \/ EmphasisReturn

EmphasisSpec == EmphasisInit /\ [][EmphasisNext]_vars

\* s.endswith(p)
EndsWith(s, p) ==
    Len(s) >= Len(p) /\ SubSeq(s, Len(s) - Len(p) + 1, Len(s)) = p

\* what stands between a leading and a trailing m in s
Between(s, m) == SubSeq(s, Len(m) + 1, Len(s) - Len(m))

\* s is m, a text without apostrophe and newline, and m again
IsMarked(s, m) ==
    /\ Len(s) >= 2 * Len(m)
    /\ StartsWith(s, m)
    /\ EndsWith(s, m)
    /\ \A j \in 1..Len(Between(s, m)) : Between(s, m)[j] \notin {"'", "\n"}

\* C13: for every text w without apostrophe and newline and for m a run of
\* exactly 2, 3 or 5 apostrophes, remove_italic_and_bold of m w m is w.
C13_MarkedAnyText ==
    Returned("remove_italic_and_bold") =>
        \A m \in {Apos2, Apos3, Apos5} :
            IsMarked(arg, m) => ret = Between(arg, m)

\* C13, amended: for every non-empty text w without apostrophe and newline
\* and for m a run of exactly 2, 3 or 5 apostrophes, remove_italic_and_bold
\* of m w m is w.
C13_MarkedText ==
    Returned("remove_italic_and_bold") =>
        \A m \in {Apos2, Apos3, Apos5} :
            (IsMarked(arg, m) /\ Between(arg, m) # <<>>)
                => ret = Between(arg, m)

C13_Witness ==
    /\ Returned("remove_italic_and_bold")
    /\ arg = Apos5 \o <<"a">> \o Apos5
    /\ ret = <<"a">>

\* the iteration of the loop over the parts that is about to run meets the
\* part run
Meets(run) ==
    /\ pc = "part"
    /\ local_i <= Len(local_parts)
    /\ local_parts[local_i] = run

\* a later apostrophe run of the line in progress begins with three
\* apostrophes
BoldMarkerFollows ==
    \E j \in (local_i + 1)..Len(local_parts) :
        StartsWith(local_parts[j], Apos3)

\* C16: a run of exactly 3 apostrophes moves the state None -> Bold,
\* Bold -> None and Both -> Italic; met in state Italic it moves to Both
\* when a later apostrophe run of the same line begins with three
\* apostrophes (runs of exactly two are passed over, later lines are not
\* looked at) and to None otherwise.
C16_ThreeRun ==
    /\ [][Meets(Apos3) =>
            local_state' =
                CASE local_state = 0 -> 2
                  [] local_state = 2 -> 0
                  [] local_state = 3 -> 1
                  [] OTHER -> IF BoldMarkerFollows THEN 3 ELSE 0]_vars
    /\ [](pc = "part" => Flatten(local_parts) = local_lines[local_line])

C16_Witness ==
    /\ arg = Apos2 \o <<"a">> \o Apos3 \o <<"a">> \o Apos2 \o <<"a">>
                \o Apos3 \o <<"a">>
    /\ pc = "part"
    /\ local_i = 5
    /\ local_parts[4] = Apos3
    /\ local_state = 3

\* C17: a run of exactly 2 apostrophes toggles the italic component of the
\* state and leaves the bold component (None <-> Italic, Bold <-> Both), a
\* run of exactly 5 toggles both components (None <-> Both,
\* Italic <-> Bold), and the state is always one of None, Italic, Bold,
\* Both.  Italic is the low bit of the state and bold the high bit.
C17_TwoAndFiveRuns ==
    /\ [][Meets(Apos2) =>
            /\ local_state' % 2 # local_state % 2
            /\ local_state' \div 2 = local_state \div 2]_vars
    /\ [][Meets(Apos5) => local_state' = 3 - local_state]_vars
    /\ [](local_state \in 0..3)

C17_Witness ==
    /\ arg = Apos2 \o <<"a">> \o Apos5
    /\ pc = "part"
    /\ local_i = 5
    /\ local_parts[4] = Apos5
    /\ local_state = 2

RECURSIVE StateAfter(_, _)
\* the state in which a line processed alone is after its first n parts
StateAfter(line_parts, n) ==
    IF n = 0 THEN 0
    ELSE EmphasisStep(line_parts, n, StateAfter(line_parts, n - 1)).st

\* what follows the last newline of s
LastLine(s) ==
    IF \A j \in 1..Len(s) : s[j] # "\n" THEN s
    ELSE From(s, CHOOSE j \in 1..Len(s) :
                     s[j] = "\n" /\ \A j2 \in (j + 1)..Len(s) : s[j2] # "\n")

\* C18: the state is None at the start of every line, and the apostrophe
\* runs of a line are read as if the line were processed alone, whatever
\* markers the lines before left open: emphasis never spans a newline.
C18_StatePerLine ==
    /\ (pc = "part" /\ local_i = 1) => local_state = 0
    /\ pc = "part" =>
           local_state = StateAfter(SplitKeep(parts_re,
                                              local_lines[local_line]),
                                    local_i - 1)
    /\ Returned("remove_italic_and_bold") =>
           LastLine(ret) = remove_italic_and_bold(LastLine(arg))

C18_Witness ==
    /\ arg = Apos2 \o <<"a", "\n">> \o Apos3 \o <<"a">>
    /\ pc = "part"
    /\ local_line = 3
    /\ local_i = 3
    /\ local_state = 2

\* the positions at which a maximal run of apostrophes of s begins
RunStarts(s) ==
    {p \in 1..Len(s) : s[p] = "'" /\ (p = 1 \/ s[p - 1] # "'")}

\* the length of the maximal run of apostrophes of s that begins at p
RunLengthAt(s, p) ==
    (CHOOSE q \in p..(Len(s) + 1) :
        /\ q = Len(s) + 1 \/ s[q] # "'"
        /\ \A r \in p..(q - 1) : s[r] = "'") - p

\* the number of apostrophes of s
Apostrophes(s) == Cardinality({p \in 1..Len(s) : s[p] = "'"})

\* C19: all recognised marker text is discarded: when every maximal
\* apostrophe run of the input of length 2 or more has length exactly 2, 3
\* or 5, the output contains none of the apostrophes of those runs, only
\* the apostrophes that stand alone in the input.
C19_MarkersDiscarded ==
    (Returned("remove_italic_and_bold")
        /\ \A p \in RunStarts(arg) : RunLengthAt(arg, p) \in {1, 2, 3, 5}) =>
        Apostrophes(ret)
            = Cardinality({p \in RunStarts(arg) : RunLengthAt(arg, p) = 1})

\* the number of newline characters of s
Newlines(s) == Cardinality({p \in 1..Len(s) : s[p] = "\n"})

\* C20: non-marker text is preserved verbatim, line separators included: a
\* text without two adjacent apostrophes is returned unchanged, and the
\* output always has as many newline characters as the input.
C20_TextPreserved ==
    Returned("remove_italic_and_bold") =>
        /\ (\A p \in RunStarts(arg) : RunLengthAt(arg, p) = 1) => ret = arg
        /\ Newlines(ret) = Newlines(arg)

\* a run of n apostrophes
RECURSIVE AposRun(_)
AposRun(n) == IF n = 0 THEN <<>> ELSE <<"'">> \o AposRun(n - 1)

\* the iteration of the loop over the parts that is about to run meets a
\* run of n apostrophes
MeetsRun(n) == Meets(AposRun(n))

\* the lengths of the apostrophe runs that the inputs can hold
RunLengths == 2..(3 * MaxMarkupWords)

\* the iteration in progress removes the leading k apostrophes of the run of
\* n apostrophes it meets and appends the others, if any, as text
Consumes(n, k) ==
    new_text_parts' =
        IF n = k THEN new_text_parts
        ELSE Append(new_text_parts, AposRun(n - k))

\* the iteration in progress toggles the italic component of the state
\* (the low bit) when i is set, and the bold component (the high bit) when
\* b is set
Toggles(i, b) ==
    /\ (local_state' % 2 # local_state % 2) = i
    /\ (local_state' \div 2 # local_state \div 2) = b

\* C21: a run of exactly 4 apostrophes loses its leading 2 apostrophes as
\* an italic toggle, and its other 2 apostrophes are left as text.
C21_FourRunAsItalic ==
    [][MeetsRun(4) => (Consumes(4, 2) /\ Toggles(TRUE, FALSE))]_vars

\* C21, amended: a run loses the prefix that the chain of startswith tests
\* recognises and the rest of it is left as text: a run of 5 or more loses
\* 5 apostrophes as a toggle of both components; a run of 3 or 4 loses 3
\* as a bold toggle, but met in state Italic with no bold marker following
\* on the line it loses 2 as an italic toggle; a run of 2 loses 2 as an
\* italic toggle.  So a run of exactly 4 leaves 1 apostrophe after a bold
\* toggle, and 2 apostrophes only when it closes an italic.
C21_RecognisedPrefix ==
    [][\A n \in RunLengths :
        MeetsRun(n) =>
            IF n >= 5 THEN Consumes(n, 5) /\ Toggles(TRUE, TRUE)
            ELSE IF n >= 3 /\ ~(local_state = 1 /\ ~BoldMarkerFollows)
                 THEN Consumes(n, 3) /\ Toggles(FALSE, TRUE)
            ELSE Consumes(n, 2) /\ Toggles(TRUE, FALSE)]_vars

C21_Witness ==
    /\ arg = AposRun(4) \o <<"a">>
    /\ pc = "part"
    /\ local_i = 3
    /\ local_parts[2] = AposRun(4)
    /\ local_state = 2
    /\ new_text_parts = <<<<>>, <<"'">>>>


(***************************************************************************)
(* section_link (template_override.py lines 9-18 and 67-119)               *)
(***************************************************************************)
\* Python's None, which is no string
NoneValue == <<"None">>

\* the truth value of a string or None
Truthy(v) == v # NoneValue /\ v # <<>>

\* a or b
Or(a, b) == IF Truthy(a) THEN a ELSE b

\* c in s
HasChar(s, c) == \E j \in 1..Len(s) : s[j] = c

\* s.split(c, 1) for a string s that contains c
SplitOnce(s, c) ==
    LET j == CHOOSE j \in 1..Len(s) :
                 s[j] = c /\ \A j2 \in 1..(j - 1) : s[j2] # c
    IN <<SubSeq(s, 1, j - 1), From(s, j)>>

\* the pairs of key and value of the arguments that contain "="
KeyValues(assignments) ==
    [j \in 1..Len(assignments) |->
        <<Strip(SplitOnce(assignments[j], "=")[1], Space),
          SplitOnce(assignments[j], "=")[2]>>]

\* _split_args: the arguments without "=" in order, and the pairs of key
\* and value of the others
_split_args(args) ==
    [positional |-> SelectSeq(args, LAMBDA a : ~HasChar(a, "=")),
     named |-> KeyValues(SelectSeq(args, LAMBDA a : HasChar(a, "=")))]

\* named.get(key): a later assignment to a key replaces an earlier one
NamedGet(named, key) ==
    IF \A j \in 1..Len(named) : named[j][1] # key THEN NoneValue
    ELSE named[CHOOSE j \in 1..Len(named) :
                   named[j][1] = key
                   /\ \A j2 \in (j + 1)..Len(named) : named[j2][1] # key][2]

\* lines 82-84
TargetOf(positional, named) ==
    IF positional # <<>> THEN positional[1]
    ELSE Or(NamedGet(named, <<"p", "a", "g", "e">>), NamedGet(named, <<"1">>))

\* lines 89 and 92-93
SectionOf(positional, named) ==
    IF Len(positional) > 1
       /\ NamedGet(named, <<"s", "e", "c", "t", "i", "o", "n">>) = NoneValue
    THEN positional[2]
    ELSE NamedGet(named, <<"s", "e", "c", "t", "i", "o", "n">>)

\* lines 90 and 94-95
DisplayOf(positional, named) ==
    IF Len(positional) > 2
       /\ ~Truthy(Or(NamedGet(named, <<"d", "i", "s", "p", "l", "a", "y">>),
                     NamedGet(named, <<"t", "e", "x", "t">>)))
    THEN positional[3]
    ELSE Or(NamedGet(named, <<"d", "i", "s", "p", "l", "a", "y">>),
            NamedGet(named, <<"t", "e", "x", "t">>))

\* lines 97-103: the section once the anchor of the target or the anchor
\* argument has been taken into account
WithAnchor(target, section, named) ==
    IF HasChar(target, "#")
    THEN IF Truthy(section) THEN section ELSE SplitOnce(target, "#")[2]
    ELSE IF Truthy(NamedGet(named, <<"a", "n", "c", "h", "o", "r">>))
            /\ ~Truthy(section)
         THEN NamedGet(named, <<"a", "n", "c", "h", "o", "r">>)
         ELSE section

\* lines 97-101: the target without its anchor
PageName(target) ==
    IF HasChar(target, "#") THEN SplitOnce(target, "#")[1] ELSE target

\* lines 105-108
LinkTarget_bare(target, section) == target

LinkTarget(target, section) ==
    IF Truthy(section) THEN target \o <<"#">> \o section ELSE target

\* lines 112-113
AfterColon(display) ==
    IF HasChar(display, ":") THEN SplitOnce(display, ":")[2] ELSE display

\* lines 110-115
DisplayText(display, target, section) ==
    Strip(IF Truthy(display) THEN display
          ELSE AfterColon(Or(section, target)), Space)

\* lines 116-119
Link(link_target, display) ==
    IF display = <<>> THEN <<"[", "[">> \o link_target \o <<"]", "]">>
    ELSE <<"[", "[">> \o link_target \o <<"|">> \o display \o <<"]", "]">>

\* lines 86-119, for the positional and named arguments split
SectionLinkOf(positional, named, target) ==
    IF ~Truthy(target) THEN <<>>
    ELSE Link(LinkTarget(PageName(target),
                         WithAnchor(target, SectionOf(positional, named),
                                    named)),
              DisplayText(DisplayOf(positional, named), PageName(target),
                          WithAnchor(target, SectionOf(positional, named),
                                     named)))

\* args[0] is the template name
section_link(args) ==
    IF Len(args) <= 1 THEN <<>>
    ELSE SectionLinkOf(_split_args(Tail(args)).positional,
                       _split_args(Tail(args)).named,
                       TargetOf(_split_args(Tail(args)).positional,
                                _split_args(Tail(args)).named))

(***************************************************************************)
(* Specification of section_link: it is called once, with the template     *)
(* name and at most MaxParams parameters drawn from LinkParams.            *)
(***************************************************************************)
MaxParams == 3

LinkParams ==
    {<<"w", ":", "e">>, <<"w", ":", "e", "#", "t">>, <<"t">>, <<>>,
     <<"p", "a", "g", "e", "=", "w", ":", "e">>,
     <<"s", "e", "c", "t", "i", "o", "n", "=", "t">>,
     <<"d", "i", "s", "p", "l", "a", "y", "=", "r">>,
     <<"d", "i", "s", "p", "l", "a", "y", "=", " ">>,
     <<"t", "e", "x", "t", "=", "r">>,
     <<"a", "n", "c", "h", "o", "r", "=", "t">>}

TemplateName == <<"s", "e", "c", "t", "i", "o", "n", " ", "l", "i", "n", "k">>

SectionArgs ==
    UNION {{<<TemplateName>> \o ps : ps \in [1..n -> LinkParams]} :
             n \in 0..MaxParams}

SectionInit ==
    /\ fn = "none"
    /\ arg \in SectionArgs
    /\ ret = <<>>
    /\ raised = FALSE
    /\ pc = "call"
    /\ NoCleanCall
    /\ NoEmphasisCall
    /\ NoMathCall
    /\ NoTarCall

CallSectionLink ==
    /\ pc = "call"
    /\ fn' = "section_link"
    /\ ret' = section_link(arg)
    /\ pc' = "returned"
    /\ UNCHANGED <<tarVars, arg, raised, cleanVars, mathVars, emphasisVars>>

SectionNext == CallSectionLink

SectionSpec == SectionInit /\ [][SectionNext]_vars


\* the positional parameters of the call and the value of its named
\* parameter key, empty when there is none
GivenPositional == _split_args(Tail(arg)).positional

Given(key) ==
    IF NamedGet(_split_args(Tail(arg)).named, key) = NoneValue THEN <<>>
    ELSE NamedGet(_split_args(Tail(arg)).named, key)

\* the first of the values that is not empty
FirstGiven(values) ==
    IF \A j \in 1..Len(values) : values[j] = <<>> THEN <<>>
    ELSE values[CHOOSE j \in 1..Len(values) :
                    values[j] # <<>> /\ \A j2 \in 1..(j - 1) : values[j2] = <<>>]

\* the target that is given: the first positional parameter, else page=
GivenTarget ==
    IF GivenPositional # <<>> THEN GivenPositional[1]
    ELSE FirstGiven(<<Given(<<"p", "a", "g", "e">>), Given(<<"1">>)>>)

\* T: the target with any #anchor removed
LinkPage ==
    IF HasChar(GivenTarget, "#") THEN SplitOnce(GivenTarget, "#")[1]
    ELSE GivenTarget

\* the explicitly given section: section=, else the second positional
GivenSection ==
    IF \E j \in 1..Len(_split_args(Tail(arg)).named) :
           _split_args(Tail(arg)).named[j][1]
               = <<"s", "e", "c", "t", "i", "o", "n">>
    THEN Given(<<"s", "e", "c", "t", "i", "o", "n">>)
    ELSE IF Len(GivenPositional) >= 2 THEN GivenPositional[2] ELSE <<>>

\* S as claimed: the explicit section, else the anchor of the target
ClaimedSection ==
    IF GivenSection # <<>> THEN GivenSection
    ELSE IF HasChar(GivenTarget, "#") THEN SplitOnce(GivenTarget, "#")[2]
    ELSE <<>>

\* S: the explicit section, else the anchor of the target, else anchor=
\* when the target has no anchor
LinkSection ==
    IF GivenSection # <<>> THEN GivenSection
    ELSE IF HasChar(GivenTarget, "#") THEN SplitOnce(GivenTarget, "#")[2]
    ELSE Given(<<"a", "n", "c", "h", "o", "r">>)

\* the explicit display text: display=, text= or the third positional
GivenDisplay ==
    FirstGiven(<<Given(<<"d", "i", "s", "p", "l", "a", "y">>),
                 Given(<<"t", "e", "x", "t">>),
                 IF Len(GivenPositional) >= 3 THEN GivenPositional[3]
                 ELSE <<>>>>)

\* D for the section sec: the explicit display text, else sec (the page
\* when sec is empty) with everything up to its first ":" removed
LinkDisplay(sec) ==
    IF GivenDisplay # <<>> THEN GivenDisplay
    ELSE IF HasChar(FirstGiven(<<sec, LinkPage>>), ":")
         THEN SplitOnce(FirstGiven(<<sec, LinkPage>>), ":")[2]
         ELSE FirstGiven(<<sec, LinkPage>>)

\* [[T#S or [[T
LinkHead(sec) ==
    <<"[", "[">> \o LinkPage
        \o (IF sec # <<>> THEN <<"#">> \o sec ELSE <<>>)

\* the three calls of the tests describe the same link
SameLinkCalls ==
    {<<TemplateName, <<"w", ":", "e">>, <<"t">>>>,
     <<TemplateName, <<"w", ":", "e", "#", "t">>>>,
     <<TemplateName, <<"p", "a", "g", "e", "=", "w", ":", "e">>,
       <<"s", "e", "c", "t", "i", "o", "n", "=", "t">>,
       <<"d", "i", "s", "p", "l", "a", "y", "=", "r">>>>}

\* C14: section_link returns '' when no target is given; otherwise it
\* returns [[T#S|D]], or [[T|D]] when no section is known, where T is the
\* target without its #anchor, S the explicit section or else the anchor of
\* the target, and D the explicit display text or else S (T when S is
\* empty) with everything up to its first ':' removed; the three calls of
\* the tests yield the same target T#S.
C14_SectionLinkAsClaimed ==
    Returned("section_link") =>
        /\ (Len(arg) <= 1 \/ GivenTarget = <<>>) => ret = <<>>
        /\ (Len(arg) > 1 /\ GivenTarget # <<>>) =>
               ret = LinkHead(ClaimedSection) \o <<"|">>
                        \o LinkDisplay(ClaimedSection) \o <<"]", "]">>
        /\ arg \in SameLinkCalls =>
               StartsWith(ret, <<"[", "[", "w", ":", "e", "#", "t", "|">>)

\* C14, amended: as above, where S is the explicit section, or else the
\* anchor of the target, or else, for a target without anchor, the value
\* of anchor=; D is stripped of surrounding white space, and when nothing
\* is left of it the bar is omitted: [[T#S]] or [[T]].
C14_SectionLink ==
    Returned("section_link") =>
        /\ (Len(arg) <= 1 \/ GivenTarget = <<>>) => ret = <<>>
        /\ (Len(arg) > 1 /\ GivenTarget # <<>>) =>
               ret = LinkHead(LinkSection)
                        \o (IF Strip(LinkDisplay(LinkSection), Space) = <<>>
                            THEN <<>>
                            ELSE <<"|">>
                                   \o Strip(LinkDisplay(LinkSection), Space))
                        \o <<"]", "]">>
        /\ arg \in SameLinkCalls =>
               StartsWith(ret, <<"[", "[", "w", ":", "e", "#", "t", "|">>)

C14_Witness ==
    /\ Returned("section_link")
    /\ arg = <<TemplateName, <<"w", ":", "e">>,
               <<"a", "n", "c", "h", "o", "r", "=", "t">>>>
    /\ ret = <<"[", "[", "w", ":", "e", "#", "t", "|", "t", "]", "]">>


(***************************************************************************)
(* parse_mobile_html (rest_parser.py lines 32-156).  The parsed document   *)
(* is the sequence of its nodes in document order, the order of            *)
(* tree.iter() and of the results of xpath: a node is a record of its tag  *)
(* and its text content; the nodes with tag "li" are the ones that         *)
(* //section[h4]/ol/li selects and those with tag "div" the ones that      *)
(* //div[@data-type='example'] selects.  A node is identified by its       *)
(* position in the document.                                               *)
(***************************************************************************)
\* current_h2, current_h3 and current_h4 after the body of the loop of
\* _build_heading_map has run for node, cur being their values before
HeadingsAfter(cur, node) ==
    IF node.tag = "h2" /\ Strip(node.text, Space) # <<>>
    THEN <<Strip(node.text, Space), NoneValue, NoneValue>>
    ELSE IF node.tag = "h3" /\ Strip(node.text, Space) # <<>>
    THEN <<cur[1], Strip(node.text, Space), NoneValue>>
    ELSE IF node.tag = "h4" /\ Strip(node.text, Space) # <<>>
    THEN <<cur[1], cur[2], Strip(node.text, Space)>>
    ELSE cur

RECURSIVE CurrentHeadings(_, _)
\* current_h2, current_h3 and current_h4 after the first n nodes
CurrentHeadings(tree, n) ==
    IF n = 0 THEN <<NoneValue, NoneValue, NoneValue>>
    ELSE HeadingsAfter(CurrentHeadings(tree, n - 1), tree[n])

\* the tuple headings: the current headings that are set
Breadcrumb(cur) == SelectSeq(cur, LAMBDA h : Truthy(h))

\* heading_map[node] for every node
_build_heading_map(tree) ==
    [n \in 1..Len(tree) |-> Breadcrumb(CurrentHeadings(tree, n))]

\* " ".join(text.split())
_normalize_whitespace(text) ==
    JoinWith(SelectSeq(SplitRe(<<Plus(<<ws>>)>>, text),
                       LAMBDA word : word # <<>>),
             <<" ">>)

\* the shorter of two lengths
Min(a, b) == IF a <= b THEN a ELSE b

_paths_match_any(sense_path, example_path) == TRUE

_paths_match(sense_path, example_path) ==
    IF sense_path = <<>> \/ example_path = <<>> THEN FALSE
    ELSE SubSeq(sense_path, 1, Min(Len(sense_path), Len(example_path)))
           = SubSeq(example_path, 1, Min(Len(sense_path), Len(example_path)))

\* the positions of the nodes with the given tag, in document order
NodesTagged(tree, tag) ==
    SelectSeq([n \in 1..Len(tree) |-> n], LAMBDA n : tree[n].tag = tag)

\* lines 109-113: the sense nodes that have headings
SenseNodes(tree) ==
    SelectSeq(NodesTagged(tree, "li"),
              LAMBDA n : _build_heading_map(tree)[n] # <<>>)

\* lines 135-142: the example nodes whose text is not empty
ExampleNodes(tree) ==
    SelectSeq(NodesTagged(tree, "div"),
              LAMBDA n : _normalize_whitespace(tree[n].text) # <<>>)

\* lines 145-152: the position in sense_nodes of the sense an example with
\* the given headings is appended to, 0 for none: the last sense with a
\* matching path, else the last sense
TargetSense(tree, sense_nodes, headings) ==
    IF \E k \in 1..Len(sense_nodes) :
           _paths_match(_build_heading_map(tree)[sense_nodes[k]], headings)
    THEN CHOOSE k \in 1..Len(sense_nodes) :
           /\ _paths_match(_build_heading_map(tree)[sense_nodes[k]], headings)
           /\ \A k2 \in (k + 1)..Len(sense_nodes) :
                  ~_paths_match(_build_heading_map(tree)[sense_nodes[k2]],
                                headings)
    ELSE Len(sense_nodes)

\* the example dict made of node n
ExampleOf(tree, n) ==
    [node |-> n, text |-> _normalize_whitespace(tree[n].text)]

\* the sense dict made of the k-th sense node, with the examples that
\* lines 144-154 append to it, in the order of the examples
SenseOf(tree, sense_nodes, k) ==
    [node |-> sense_nodes[k],
     glosses |-> IF _normalize_whitespace(tree[sense_nodes[k]].text) = <<>>
                 THEN <<>>
                 ELSE <<_normalize_whitespace(tree[sense_nodes[k]].text)>>,
     examples |->
        LET mine == SelectSeq(ExampleNodes(tree),
                       LAMBDA n : TargetSense(tree, sense_nodes,
                                      _build_heading_map(tree)[n]) = k)
        IN [j \in 1..Len(mine) |-> ExampleOf(tree, mine[j])]]

\* lines 114-118: the key (lang, pos) of a sense node
EntryKey(tree, n) ==
    <<_build_heading_map(tree)[n][1],
      _build_heading_map(tree)[n][Len(_build_heading_map(tree)[n])]>>

\* the positions in sense_nodes of the senses that open an entry: those
\* whose key no earlier sense has
FirstOfKey(tree, sense_nodes) ==
    SelectSeq([k \in 1..Len(sense_nodes) |-> k],
              LAMBDA k : \A k2 \in 1..(k - 1) :
                  EntryKey(tree, sense_nodes[k2])
                      # EntryKey(tree, sense_nodes[k]))

\* str.lower() of a string of ASCII letters and other characters
Lower(text) ==
    [j \in 1..Len(text) |->
        IF \E c \in 1..26 : UpperCase[c] = text[j]
        THEN LowerCase[CHOOSE c \in 1..26 : UpperCase[c] = text[j]]
        ELSE text[j]]

\* lines 119-132: the entry of key, with the senses of that key in order;
\* lang_code, which is looked up in a table outside this repository, is
\* left out
EntryOf(title, tree, sense_nodes, key) ==
    [word |-> title,
     lang |-> key[1],
     pos |-> Lower(key[2]),
     senses |->
        LET mine == SelectSeq([k \in 1..Len(sense_nodes) |-> k],
                       LAMBDA k : EntryKey(tree, sense_nodes[k]) = key)
        IN [j \in 1..Len(mine) |-> SenseOf(tree, sense_nodes, mine[j])]]

\* the entries in the order in which their keys are first met
EntriesOf(title, tree, sense_nodes, firsts) ==
    [e \in 1..Len(firsts) |->
        EntryOf(title, tree, sense_nodes,
                EntryKey(tree, sense_nodes[firsts[e]]))]

parse_mobile_html(title, tree) ==
    EntriesOf(title, tree, SenseNodes(tree),
              FirstOfKey(tree, SenseNodes(tree)))

(***************************************************************************)
(* Specification of parse_mobile_html: it is called once, on a document of *)
(* at most MaxNodes nodes.                                                 *)
(***************************************************************************)
MaxNodes == 5

DocNodes ==
    {[tag |-> "h2", text |-> <<"E">>],
     [tag |-> "h3", text |-> <<"X">>],
     [tag |-> "h4", text |-> <<"V">>],
     [tag |-> "h4", text |-> <<"N">>],
     [tag |-> "li", text |-> <<"g">>],
     [tag |-> "div", text |-> <<"t">>],
     [tag |-> "div", text |-> <<" ">>]}

Documents == UNION {[1..n -> DocNodes] : n \in 0..MaxNodes}

ParseInit ==
    /\ fn = "none"
    /\ arg \in Documents
    /\ ret = <<>>
    /\ raised = FALSE
    /\ pc = "call"
    /\ NoCleanCall
    /\ NoEmphasisCall
    /\ NoMathCall
    /\ NoTarCall

CallParse ==
    /\ pc = "call"
    /\ fn' = "parse_mobile_html"
    /\ ret' = parse_mobile_html(<<"l", "a", "y">>, arg)
    /\ pc' = "returned"
    /\ UNCHANGED <<tarVars, arg, raised, cleanVars, mathVars, emphasisVars>>

ParseNext == CallParse

ParseSpec == ParseInit /\ [][ParseNext]_vars


\* the senses of the returned entries
ResultSenses == Flatten([e \in 1..Len(ret) |-> ret[e].senses])

\* the nodes of the document that are senses of the result
ResultSenseNodes == {ResultSenses[k].node : k \in 1..Len(ResultSenses)}

\* node n of the document is a usage example that is not empty
IsExample(n) ==
    arg[n].tag = "div" /\ _normalize_whitespace(arg[n].text) # <<>>

\* the places at which example n occurs in the result: sense and position
Attachments(n) ==
    {a \in (1..Len(ResultSenses)) \X (1..Len(arg)) :
        /\ a[2] <= Len(ResultSenses[a[1]].examples)
        /\ ResultSenses[a[1]].examples[a[2]].node = n}

\* the headings h2, h3 and h4 that node n is under, and its heading path
HeadingsAt(n) == CurrentHeadings(arg, n)

PathAt(n) == Breadcrumb(CurrentHeadings(arg, n))

\* the senses whose heading path agrees with the path of node n over
\* their common length
Agreeing(n) ==
    {m \in ResultSenseNodes :
        /\ PathAt(m) # <<>>
        /\ PathAt(n) # <<>>
        /\ \A j \in 1..Min(Len(PathAt(m)), Len(PathAt(n))) :
               PathAt(m)[j] = PathAt(n)[j]}

\* the last of a set of nodes
LastNode(nodes) == CHOOSE m \in nodes : \A m2 \in nodes : m2 <= m

MaxTitleWords == 4

\* (^|/)\.($|/)
DotRe ==
    <<Grp(1, <<Alt(<<<<StartOfString>>, Lit(<<"/">>)>>)>>)>>
    \o Lit(<<".">>)
    \o <<Grp(2, <<Alt(<<<<EndOfString>>, Lit(<<"/">>)>>)>>)>>

\* (^|/)\.\.($|/)
DotDotRe ==
    <<Grp(1, <<Alt(<<<<StartOfString>>, Lit(<<"/">>)>>)>>)>>
    \o Lit(<<".", ".">>)
    \o <<Grp(2, <<Alt(<<<<EndOfString>>, Lit(<<"/">>)>>)>>)>>

\* ^/
LeadingSlashRe == <<StartOfString>> \o Lit(<<"/">>)

\* /$
TrailingSlashRe == Lit(<<"/">>) \o <<EndOfString>>

DotDotName == <<"_", "_", "d", "o", "t", "d", "o", "t", "_", "_">>
SlashSlashName ==
    <<"_", "_", "s", "l", "a", "s", "h", "s", "l", "a", "s", "h", "_", "_">>
SlashName == <<"_", "_", "s", "l", "a", "s", "h", "_", "_">>

\* the template \1__dotdot__\2
DotDotTemplate(m) == Group(m, 1) \o DotDotName \o Group(m, 2)

\* the template __slash__
SlashTemplate(m) == SlashName

\* s.find(c) for a character c: the index from 0 of its first occurrence,
\* -1 when there is none
StrFind(s, c) ==
    IF \E i \in 1..Len(s) : s[i] = c
    THEN (CHOOSE i \in 1..Len(s) :
              s[i] = c /\ \A j \in 1..(i - 1) : s[j] # c) - 1
    ELSE -1

RECURSIVE StrReplace(_, _, _)
\* s.replace(old, new) for a non-empty old: the occurrences of old are
\* taken from the left and do not overlap
StrReplace(s, old, new) ==
    IF Len(s) < Len(old) THEN s
    ELSE IF StartsWith(s, old)
    THEN new \o StrReplace(From(s, Len(old)), old, new)
    ELSE <<Head(s)>> \o StrReplace(Tail(s), old, new)

\* line 815: page.title[page.title.find(":") + 1 :]
TitleAfterColon(title) == From(title, StrFind(title, ":") + 1)

\* lines 816-817: the two substitutions of the dot components
NeutraliseDots(title) ==
    ReSub(DotDotRe, DotDotTemplate, ReSub(DotRe, DotDotTemplate, title))

\* lines 818-820: the double slashes, then a slash at either end
NeutraliseSlashes(title) ==
    ReSub(TrailingSlashRe, SlashTemplate,
          ReSub(LeadingSlashRe, SlashTemplate,
                StrReplace(title, <<"/", "/">>, SlashSlashName)))

\* process_ns_page_title(page, ns_name): the pair of title and text
process_ns_page_title(page, ns_name) ==
    [title |-> ns_name \o <<"/">>
                   \o NeutraliseSlashes(
                          NeutraliseDots(TitleAfterColon(page.title))),
     text |-> IF page.body # NoneValue THEN page.body ELSE page.redirect_to]

\* lines 838-850: the TarInfo of a page and its data: title += ".txt"
Member(r) ==
    [name |-> r.title \o <<".", "t", "x", "t">>, size |-> Len(r.text),
     data |-> r.text]

NamespaceNames == {<<"M", "o", "d">>}

TitleLexemes == {<<"/">>, <<".">>, <<".", ".">>, <<"x">>}

\* with the namespace prefix, and without a colon
TitlePrefixes == {<<"M", "o", "d", ":">>, <<>>}

PageTitles ==
    {p \o w : p \in TitlePrefixes,
              w \in WordsUpTo(TitleLexemes, MaxTitleWords) \ {<<>>}}

\* a page with a body, followed by a redirect
PagesOf(title) ==
    <<[title |-> title, body |-> <<"b">>, redirect_to |-> NoneValue],
      [title |-> <<"M", "o", "d", ":", "r">>, body |-> NoneValue,
       redirect_to |-> <<"M", "o", "d", ":", "x">>]>>

TarInit ==
    /\ fn = "none"
    /\ arg \in NamespaceNames
    /\ ret = <<>>
    /\ raised = FALSE
    /\ pc = "call"
    /\ NoCleanCall
    /\ NoEmphasisCall
    /\ NoMathCall
    /\ local_pages \in {PagesOf(t) : t \in PageTitles}
    /\ tarf = <<>>

\* lines 831-836: the archive is opened for writing, the loop begins
OpenTar ==
    /\ pc = "call"
    /\ fn' = "extract_namespace"
    /\ tarf' = <<>>
    /\ pc' = "pages"
    /\ UNCHANGED <<arg, ret, raised, local_pages, cleanVars, emphasisVars,
                   mathVars>>

\* lines 837-850: the body of the loop for the next page
AddPage ==
    /\ pc = "pages"
    /\ local_pages # <<>>
    /\ ret' = process_ns_page_title(Head(local_pages), arg).title
    /\ tarf' = Append(tarf,
                      Member(process_ns_page_title(Head(local_pages), arg)))
    /\ local_pages' = Tail(local_pages)
    /\ UNCHANGED <<fn, arg, raised, pc, cleanVars, emphasisVars, mathVars>>

\* the loop is over, the archive is closed
CloseTar ==
    /\ pc = "pages"
    /\ local_pages = <<>>
    /\ pc' = "returned"
    /\ UNCHANGED <<fn, arg, ret, raised, tarVars, cleanVars, emphasisVars,
                   mathVars>>

TarNext == OpenTar \/ AddPage \/ CloseTar

TarSpec == TarInit /\ [][TarNext]_vars

RECURSIVE Components(_)
\* s.split("/")
Components(s) ==
    IF StrFind(s, "/") = -1 THEN <<s>>
    ELSE <<SubSeq(s, 1, StrFind(s, "/"))>>
             \o Components(From(s, StrFind(s, "/") + 1))

\* name without its first n characters
AfterPrefix(name, n) == From(name, n)

\* a title was returned for a page of the namespace
TitleReturned == fn = "extract_namespace" /\ ret # <<>>

\* C30: the name process_ns_page_title returns starts with ns_name + "/"
\* and, after that prefix, has no path component equal to "." or "..", no
\* empty component, and neither begins nor ends with "/"; consecutive
\* components such as x/../../y are all neutralised.
C30_MemberNameSafe ==
    TitleReturned =>
        /\ StartsWith(ret, arg \o <<"/">>)
        /\ \A j \in 1..Len(Components(AfterPrefix(ret, Len(arg) + 1))) :
              Components(AfterPrefix(ret, Len(arg) + 1))[j]
                  \notin {<<".">>, <<".", ".">>, <<>>}
        /\ AfterPrefix(ret, Len(arg) + 1)[1] # "/"
        /\ Last(ret) # "/"

RECURSIVE StaysBelow(_, _)
\* the path of components comps, walked from depth levels below the
\* directory of the namespace, never climbs above that directory
StaysBelow(comps, depth) ==
    IF comps = <<>> THEN TRUE
    ELSE IF Head(comps) = <<".", ".">>
    THEN depth > 0 /\ StaysBelow(Tail(comps), depth - 1)
    ELSE IF Head(comps) \in {<<".">>, <<>>}
    THEN StaysBelow(Tail(comps), depth)
    ELSE StaysBelow(Tail(comps), depth + 1)

\* every member of the archive has a name that starts with the directory
\* of the namespace and resolves to a path below it
MembersResolveInside ==
    \A k \in 1..Len(tarf) :
        /\ StartsWith(tarf[k].name, arg \o <<"/">>)
        /\ StaysBelow(Components(AfterPrefix(tarf[k].name, Len(arg) + 1)),
                      0)

====
